---- MODULE Spec2Model ----
(***************************************************************************)
(* Model of the contentive-classify backend: the rank-based IAB taxonomy   *)
(* build (backend/iab_taxonomy.py), URL normalisation and IAB code         *)
(* validation (backend/mcp_server.py) and the attribution/classification   *)
(* merge (backend/merge_attribution_with_classification.py).               *)
(*                                                                         *)
(* Python strings that the code inspects character by character (labels,  *)
(* IAB codes, URLs) are sequences of one-character strings.  None is the   *)
(* one-element sequence None, which is no string of the alphabet.          *)
(***************************************************************************)
EXTENDS Integers, Sequences, FiniteSets, TLC

VARIABLES
    tsv_rows,      \* taxonomy source: the data rows of the TSV, in file order
    tsv_pad,       \* number of further rows of the source (see PadChoices)
    iab_status,    \* outcome of the last parse_iab_tsv: "none", "ok", "too_small"
    code_by_uid,   \* parse_iab_tsv: uid -> code assigned by the last build
    iab_codes,     \* parse_iab_tsv: the returned list of entries
    prev_code_by_uid, \* code_by_uid of the build before the rows were reordered
    url_raw,       \* normalize_url: the raw string
    url_once,      \* normalize_url(url_raw), None before the call
    url_twice,     \* normalize_url(url_once), None before the call
    val_index,     \* app.config['IAB_TAXONOMY']['codes']: code -> label
    val_in,        \* the result dict passed to _normalize_and_validate_iab
    val_out,       \* the call's outcome: status "none" before it, "raised", or "ok" with the four codes
    attribution_data,       \* Firestore collection attribution_data, in stream order
    classified_urls,        \* Firestore collection classified_urls: document id -> record
    merged_content_signals, \* Firestore collection merged_content_signals: document id -> record
    now,                    \* datetime.utcnow(), counted in merge runs
    merge_result,           \* what the last merge_attribution_data() returned
    ctr_record,    \* _create_merged_record: the attribution record passed in
    ctr_merged,    \* _create_merged_record: the record returned, status "none" before the call
    seg_docs,      \* merged_content_signals as the segment endpoints stream it
    seg_call,      \* the last segment request: its endpoint and parameters
    seg_result,    \* the rows that request returned
    iab_cache,     \* iab_taxonomy._IAB_CACHE
    iab_path,      \* iab_taxonomy._IAB_PATH
    headers_info,  \* iab_taxonomy._HEADERS_INFO: the path of the last file read
    load_pc,       \* per thread: where its load_iab_taxonomy call stands
    load_path,     \* per thread: the path its call asked for
    load_items,    \* per thread: the local list items
    load_result,   \* per thread: what its last call returned or raised
    app_taxonomy,  \* app.config['IAB_TAXONOMY']
    helper_taxonomy, \* iab_classification_helper.taxonomy
    reloads,       \* number of taxonomy loads requested so far
    reload_last,   \* the last of them: who loaded, and whether the build succeeded
    json_file,  \* taxonomy_loader.load_taxonomy: the JSON file it opens, or that it is missing
    json_taxonomy, \* what the last load_taxonomy returned or raised, status "none" before it
    cls_docs,  \* the classification collection: document id -> document
    cls_clock,  \* datetime.utcnow(), in calls of classify_url so far
    cls_last, \* the last call of classify_url and what it did
    own_attr,  \* attribution_data of the concurrent runs, in stream order
    own_merged,  \* merged_content_signals of the concurrent runs
    own_runs,  \* owner -> the run started on the owner's behalf
    own_wrote,  \* document id -> the owners whose runs wrote the document
    own_clock  \* datetime.utcnow(), in steps so far

taxVars == <<tsv_rows, tsv_pad, iab_status, code_by_uid, iab_codes, prev_code_by_uid>>

urlVars == <<url_raw, url_once, url_twice>>

valVars == <<val_index, val_in, val_out>>

mrgVars == <<attribution_data, classified_urls, merged_content_signals, now, merge_result>>

ctrVars == <<ctr_record, ctr_merged>>

segVars == <<seg_docs, seg_call, seg_result>>

tcVars == <<iab_cache, iab_path, headers_info, load_pc, load_path, load_items, load_result>>

rlVars == <<app_taxonomy, helper_taxonomy, reloads, reload_last>>

jsonVars == <<json_file, json_taxonomy>>

clsVars == <<cls_docs, cls_clock, cls_last>>

ownVars == <<own_attr, own_merged, own_runs, own_wrote, own_clock>>

vars == <<tsv_rows, tsv_pad, iab_status, code_by_uid, iab_codes, prev_code_by_uid,
          url_raw, url_once, url_twice, val_index, val_in, val_out,
          attribution_data, classified_urls, merged_content_signals, now, merge_result,
          ctr_record, ctr_merged, seg_docs, seg_call, seg_result,
          iab_cache, iab_path, headers_info, load_pc, load_path, load_items, load_result,
          app_taxonomy, helper_taxonomy, reloads, reload_last,
          json_file, json_taxonomy,
          cls_docs, cls_clock, cls_last,
          own_attr, own_merged, own_runs, own_wrote, own_clock>>

-----------------------------------------------------------------------------
(* Bounds *)

MaxRows == 3
MaxUrlLen == 4
MaxAttr == 2
MaxRuns == 2

\* documents in merged_content_signals when the taxonomy filters are exercised
MaxTaxDocs == 1

\* documents in merged_content_signals when sorting and thresholds are exercised
MaxDocs == 3

\* threads calling load_iab_taxonomy at once
MaxThreads == 2

\* taxonomy loads requested of the holders
MaxReloads == 4

\* entries in the "codes" list of the taxonomy JSON file
MaxCodes == 2

\* calls of classify_url in a behaviour
MaxCalls == 3

\* uploads and run starts while runs of the merge overlap
MaxSteps == 4

-----------------------------------------------------------------------------
(* Python values *)

None == <<"None">>

Digits == <<"0", "1", "2", "3", "4", "5", "6", "7", "8", "9">>

IsDigit(c) == \E i \in 1..10 : Digits[i] = c

\* code points of the characters the model uses (Python compares str by code point)
Ord(c) ==
    CASE c = " " -> 32 [] c = "#" -> 35 [] c = "(" -> 40 [] c = ")" -> 41
      [] c = "-" -> 45 [] c = "." -> 46 [] c = "/" -> 47
      [] c = "0" -> 48 [] c = "1" -> 49 [] c = "2" -> 50 [] c = "3" -> 51
      [] c = "4" -> 52 [] c = "5" -> 53 [] c = "6" -> 54 [] c = "7" -> 55
      [] c = "8" -> 56 [] c = "9" -> 57 [] c = ":" -> 58 [] c = "?" -> 63
      [] c = "A" -> 65 [] c = "B" -> 66 [] c = "H" -> 72 [] c = "I" -> 73
      [] c = "P" -> 80 [] c = "S" -> 83 [] c = "T" -> 84 [] c = "X" -> 88
      [] c = "a" -> 97 [] c = "b" -> 98 [] c = "h" -> 104 [] c = "p" -> 112
      [] c = "s" -> 115 [] c = "t" -> 116 [] c = "x" -> 120
      [] OTHER -> 0

\* str.lower() on one character
LowerChar(c) ==
    CASE c = "A" -> "a" [] c = "B" -> "b" [] c = "H" -> "h" [] c = "I" -> "i"
      [] c = "P" -> "p" [] c = "S" -> "s" [] c = "T" -> "t" [] c = "X" -> "x"
      [] OTHER -> c

Lower(s) == [i \in 1..Len(s) |-> LowerChar(s[i])]

\* Python's a < b on str: lexicographic by code point, a proper prefix is smaller
RECURSIVE StrLess(_, _)
StrLess(a, b) ==
    IF b = <<>> THEN FALSE
    ELSE IF a = <<>> THEN TRUE
    ELSE IF Ord(Head(a)) # Ord(Head(b)) THEN Ord(Head(a)) < Ord(Head(b))
    ELSE StrLess(Tail(a), Tail(b))

StartsWith(s, p) == Len(p) <= Len(s) /\ SubSeq(s, 1, Len(p)) = p

\* str(n) for a natural number n
RECURSIVE IntToStr(_)
IntToStr(n) ==
    IF n < 10 THEN <<Digits[n + 1]>>
    ELSE IntToStr(n \div 10) \o <<Digits[(n % 10) + 1]>>

IAB == <<"I", "A", "B">>

-----------------------------------------------------------------------------
(* backend/iab_taxonomy.py: parse_iab_tsv *)

MIN_ROWS == 200

\* uid 0 stands for the empty Parent cell (parent_uid None); GhostUid is a
\* Parent value that is the Unique ID of no row.
NoParent == 0
GhostUid == 99

LabelChoices == { <<"a">>, <<"A">>, <<"B">> }

\* The rows beyond tsv_rows: one root whose label sorts after every label of
\* LabelChoices, with its leaf children.  They add to the entry count and
\* change no rank among the rows of tsv_rows.
PadChoices == {0, MIN_ROWS}

Uids(rows) == { rows[i].uid : i \in 1..Len(rows) }

\* list.sort(key=lambda a: a.get("label", "").lower()): stable, ascending
RECURSIVE InsertByLabel(_, _)
InsertByLabel(sorted, n) ==
    IF sorted = <<>> THEN <<n>>
    ELSE IF StrLess(Lower(n.label), Lower(sorted[Len(sorted)].label))
         THEN InsertByLabel(SubSeq(sorted, 1, Len(sorted) - 1), n)
                  \o <<sorted[Len(sorted)]>>
         ELSE Append(sorted, n)

\* the sibling lists left in file order (the sort dropped)
SortByLabel_FileOrder(lst) == lst

RECURSIVE SortByLabel(_)
SortByLabel(lst) ==
    IF lst = <<>> THEN <<>>
    ELSE InsertByLabel(SortByLabel(SubSeq(lst, 1, Len(lst) - 1)), lst[Len(lst)])

\* by_parent.get(key) or []: the nodes whose parent_uid is key, sorted
ByParent(nodes, key) ==
    SortByLabel(SelectSeq(nodes, LAMBDA n : n.parent_uid = key))

\* dict.get(k), None when the key is missing
Get(d, k) == IF k \in DOMAIN d THEN d[k] ELSE None

Put(d, k, v) == [x \in (DOMAIN d) \cup {k} |-> IF x = k THEN v ELSE d[x]]

\* top_rank_of: climb the parent links to a node without parent
RECURSIVE top_rank_of(_, _, _)
top_rank_of(p, nodes, top_rank_by_uid) ==
    LET hit == { i \in 1..Len(nodes) : nodes[i].uid = p }
        parent == IF hit = {} THEN NoParent
                  ELSE nodes[CHOOSE i \in hit : TRUE].parent_uid
    IN  IF parent = NoParent
        THEN (IF p \in DOMAIN top_rank_by_uid THEN top_rank_by_uid[p] ELSE 0)
        ELSE top_rank_of(parent, nodes, top_rank_by_uid)

\* code of the child at 0-based position idx under parent_uid
ChildCode(parent_code, top_rank, idx) ==
    IAB \o IntToStr(top_rank) \o <<"-">> \o IntToStr(idx + 1)

\* _assign_children; st is the pair of dicts [code, top] it updates.
\* AssignKids is its for-loop from position idx on.
RECURSIVE AssignKids(_, _, _, _, _, _)
_assign_children(parent_uid, parent_code, nodes, st) ==
    AssignKids(ByParent(nodes, parent_uid), 1, parent_uid, parent_code, nodes, st)

AssignKids(kids, idx, parent_uid, parent_code, nodes, st) ==
    IF idx > Len(kids) THEN st
    ELSE
      LET child    == kids[idx]
          top_rank == top_rank_of(parent_uid, nodes, st.top)
          code     == ChildCode(parent_code, top_rank, idx - 1)
          st1      == [code |-> Put(st.code, child.uid, code),
                       top  |-> Put(st.top, child.uid, top_rank)]
          st2      == AssignKids(ByParent(nodes, child.uid), 1, child.uid, code, nodes, st1)
      IN  AssignKids(kids, idx + 1, parent_uid, parent_code, nodes, st2)

\* the loop over the sorted roots, from position i on
RECURSIVE AssignRoots(_, _, _, _)
AssignRoots(roots, i, nodes, st) ==
    IF i > Len(roots) THEN st
    ELSE
      LET root == roots[i]
          top  == IAB \o IntToStr(i)
          st1  == [code |-> Put(st.code, root.uid, top),
                   top  |-> Put(st.top, root.uid, i)]
      IN  AssignRoots(roots, i + 1, nodes, _assign_children(root.uid, top, nodes, st1))

EmptyDict == [x \in {} |-> None]

\* the code_by_uid dict parse_iab_tsv computes for the nodes
AssignCodes(nodes) ==
    AssignRoots(ByParent(nodes, NoParent), 1, nodes,
                [code |-> EmptyDict, top |-> EmptyDict]).code

\* the final list: one entry per node, in node order
BuildEntries(nodes, cbu) ==
    [i \in 1..Len(nodes) |->
        [code   |-> Get(cbu, nodes[i].uid),
         label  |-> nodes[i].label,
         parent |-> IF nodes[i].parent_uid # NoParent
                    THEN Get(cbu, nodes[i].parent_uid) ELSE None]]

\* the size check at the end of parse_iab_tsv
TooSmall(count) == count < MIN_ROWS

-----------------------------------------------------------------------------
(* Taxonomy sources *)

\* the row at position i of a source of n rows: its uid is i, its parent is
\* empty, another row or no row of the source
RowChoices(n) == [parent_uid : (0..n) \cup {GhostUid}, label : LabelChoices]

RowOrders(n) ==
    { p \in [1..n -> 1..n] : \A i, j \in 1..n : i # j => p[i] # p[j] }

IdleTax ==
    /\ tsv_rows = <<>>
    /\ tsv_pad = 0
    /\ iab_status = "none"
    /\ code_by_uid = EmptyDict
    /\ iab_codes = <<>>
    /\ prev_code_by_uid = None

IdleUrl ==
    /\ url_raw = <<>>
    /\ url_once = None
    /\ url_twice = None

IdleVal ==
    /\ val_index = EmptyDict
    /\ val_in = <<>>
    /\ val_out = [status |-> "none"]

\* the statistics of a merger that has not run (AttributionClassificationMerger.__init__)
ZeroStats ==
    [total_attribution_records |-> 0, total_classification_records |-> 0,
     successful_merges |-> 0, attribution_only |-> 0, classification_only |-> 0,
     errors |-> 0, skipped |-> 0]

IdleMrg ==
    /\ attribution_data = <<>>
    /\ classified_urls = EmptyDict
    /\ merged_content_signals = EmptyDict
    /\ now = 0
    /\ merge_result = [status |-> "none", success |-> FALSE, statistics |-> ZeroStats]

IdleCtr ==
    /\ ctr_record = <<>>
    /\ ctr_merged = [status |-> "none"]

IdleSeg ==
    /\ seg_docs = <<>>
    /\ seg_call = [op |-> "none"]
    /\ seg_result = <<>>

IdleCache ==
    /\ iab_cache = [built_from |-> ""]
    /\ iab_path = ""
    /\ headers_info = ""
    /\ load_pc = <<>>
    /\ load_path = <<>>
    /\ load_items = <<>>
    /\ load_result = <<>>

IdleReload ==
    /\ app_taxonomy = [status |-> "unavailable"]
    /\ helper_taxonomy = [status |-> "empty"]
    /\ reloads = 0
    /\ reload_last = [holder |-> "none"]

IdleJson ==
    /\ json_file = [exists |-> FALSE]
    /\ json_taxonomy = [status |-> "none"]

IdleCls ==
    /\ cls_docs = EmptyDict
    /\ cls_clock = 0
    /\ cls_last = [outcome |-> "none"]

IdleOwn ==
    /\ own_attr = <<>>
    /\ own_merged = EmptyDict
    /\ own_runs = EmptyDict
    /\ own_wrote = EmptyDict
    /\ own_clock = 0

InitTax ==
    /\ IdleUrl
    /\ IdleVal
    /\ IdleMrg
    /\ IdleCtr
    /\ IdleSeg
    /\ IdleCache
    /\ IdleReload
    /\ IdleJson
    /\ IdleCls
    /\ IdleOwn
    /\ \E n \in 1..MaxRows : \E c \in [1..n -> RowChoices(n)] :
         /\ \A i \in 1..n : c[i].parent_uid # i
         /\ tsv_rows = [i \in 1..n |->
                           [uid |-> i, parent_uid |-> c[i].parent_uid, label |-> c[i].label]]
    /\ tsv_pad \in PadChoices
    /\ iab_status = "none"
    /\ code_by_uid = EmptyDict
    /\ iab_codes = <<>>
    /\ prev_code_by_uid = None

\* parse_iab_tsv on the current source
ParseIabTsv ==
    /\ iab_status = "none"
    /\ IF TooSmall(Len(tsv_rows) + tsv_pad)
       THEN /\ iab_status' = "too_small"
            /\ UNCHANGED <<code_by_uid, iab_codes>>
       ELSE /\ iab_status' = "ok"
            /\ code_by_uid' = AssignCodes(tsv_rows)
            /\ iab_codes' = BuildEntries(tsv_rows, code_by_uid')
    /\ UNCHANGED <<tsv_rows, tsv_pad, prev_code_by_uid>>
    /\ UNCHANGED <<urlVars, valVars, mrgVars, ctrVars, segVars, tcVars, rlVars, jsonVars, clsVars, ownVars>>

\* the rows of the source are written in another order and the source is parsed again
ReorderAndParse ==
    /\ iab_status = "ok"
    /\ prev_code_by_uid = None
    /\ \E p \in RowOrders(Len(tsv_rows)) :
         /\ p # [i \in 1..Len(tsv_rows) |-> i]
         /\ tsv_rows' = [i \in 1..Len(tsv_rows) |-> tsv_rows[p[i]]]
    /\ prev_code_by_uid' = code_by_uid
    /\ code_by_uid' = AssignCodes(tsv_rows')
    /\ iab_codes' = BuildEntries(tsv_rows', code_by_uid')
    /\ UNCHANGED <<tsv_pad, iab_status>>
    /\ UNCHANGED <<urlVars, valVars, mrgVars, ctrVars, segVars, tcVars, rlVars, jsonVars, clsVars, ownVars>>

NextTax == ParseIabTsv \/ ReorderAndParse

SpecTax == InitTax /\ [][NextTax]_vars

-----------------------------------------------------------------------------
(* backend/mcp_server.py: normalize_url *)

\* 1-based index of the first character of s at or after position from that
\* is in cs, 0 when there is none (str.find)
IndexOf(s, cs, from) ==
    IF \E i \in from..Len(s) : s[i] \in cs
    THEN CHOOSE i \in from..Len(s) :
            s[i] \in cs /\ \A j \in from..(i - 1) : s[j] \notin cs
    ELSE 0

\* str.strip() for the blank character
RECURSIVE Strip(_)
Strip(s) ==
    IF s = <<>> THEN s
    ELSE IF Head(s) = " " THEN Strip(Tail(s))
    ELSE IF s[Len(s)] = " " THEN Strip(SubSeq(s, 1, Len(s) - 1))
    ELSE s

Letters == {"a", "b", "h", "p", "s", "t", "x", "A", "B", "H", "I", "P", "S", "T", "X"}

\* urllib.parse.scheme_chars
SchemeChars == Letters \cup { Digits[i] : i \in 1..10 } \cup {"+", "-", "."}

\* urllib.parse.urlsplit, scheme step: the text before the first ':' is the
\* scheme when it starts with a letter and holds scheme characters only
SplitScheme(url) ==
    LET i == IndexOf(url, {":"}, 1)
    IN  IF /\ i > 1
           /\ url[1] \in Letters
           /\ \A k \in 1..(i - 1) : url[k] \in SchemeChars
        THEN [scheme |-> Lower(SubSeq(url, 1, i - 1)),
              rest   |-> SubSeq(url, i + 1, Len(url))]
        ELSE [scheme |-> <<>>, rest |-> url]

\* urllib.parse.urlsplit, netloc step: after "//" the netloc runs to the
\* first of '/', '?', '#'
SplitNetloc(rest) ==
    IF StartsWith(rest, <<"/", "/">>)
    THEN LET d == IndexOf(rest, {"/", "?", "#"}, 3)
         IN  IF d = 0
             THEN [netloc |-> SubSeq(rest, 3, Len(rest)), rest |-> <<>>]
             ELSE [netloc |-> SubSeq(rest, 3, d - 1),
                   rest   |-> SubSeq(rest, d, Len(rest))]
    ELSE [netloc |-> <<>>, rest |-> rest]

\* s.split(c, 1)[0]: s up to its first character in cs
UpTo(s, cs) ==
    LET k == IndexOf(s, cs, 1)
    IN  IF k = 0 THEN s ELSE SubSeq(s, 1, k - 1)

\* the result of urlparse from its scheme and netloc steps; the path is what
\* is left once the fragment and then the query are split off
ParseResult(scheme, net) ==
    [scheme |-> scheme, netloc |-> net.netloc,
     path |-> UpTo(UpTo(net.rest, {"#"}), {"?"})]

SchemeSplit(sch) == ParseResult(sch.scheme, SplitNetloc(sch.rest))

\* urllib.parse.urlparse, for strings without ';', '[' and ']':
\* the scheme, netloc and path of the result
urlparse(url) == SchemeSplit(SplitScheme(url))

HTTPS == <<"h", "t", "t", "p", "s">>

\* path with its trailing slashes removed as normalize_url removes them:
\* one slash, unless the path is "/"
TrimTrailingSlash(path) ==
    IF path # <<>> /\ path[Len(path)] = "/" /\ path # <<"/">>
    THEN SubSeq(path, 1, Len(path) - 1)
    ELSE path

\* a URL given without scheme parses with an empty netloc and the host at
\* the start of the path: the host is the path up to its first '/'
HostFromPath(parsed) ==
    IF /\ parsed.netloc = <<>>
       /\ parsed.path # <<>>
       /\ IndexOf(parsed.path, {"."}, 1) # 0
       /\ IndexOf(parsed.path, {" "}, 1) = 0
    THEN LET slash == IndexOf(parsed.path, {"/"}, 1)
         IN  IF slash = 0
             THEN [scheme |-> parsed.scheme, netloc |-> parsed.path, path |-> <<>>]
             ELSE [scheme |-> parsed.scheme,
                   netloc |-> SubSeq(parsed.path, 1, slash - 1),
                   path   |-> SubSeq(parsed.path, slash, Len(parsed.path))]
    ELSE parsed

\* the normalised text of parsed parts: scheme (https when empty), lower-case
\* netloc, path without its trailing slash; query and fragment dropped
Unparse(parts) ==
    (IF parts.scheme # <<>> THEN parts.scheme ELSE HTTPS)
        \o <<":", "/", "/">> \o Lower(parts.netloc) \o TrimTrailingSlash(parts.path)

normalize_url(raw) ==
    IF raw = None THEN <<>>
    ELSE Unparse(HostFromPath(urlparse(Strip(raw))))

\* raw URLs: an optional scheme prefix and a body over UrlChars
UrlChars == {"a", "B", ".", "/", "?", "#", " "}

UrlPrefixes == { <<>>, <<"h", "t", "t", "p", ":", "/", "/">>,
                 <<"H", "T", "T", "P", "S", ":", "/", "/">> }

InitUrl ==
    /\ IdleTax
    /\ IdleVal
    /\ IdleMrg
    /\ IdleCtr
    /\ IdleSeg
    /\ IdleCache
    /\ IdleReload
    /\ IdleJson
    /\ IdleCls
    /\ IdleOwn
    /\ \E n \in 0..MaxUrlLen : \E body \in [1..n -> UrlChars] : \E pre \in UrlPrefixes :
         url_raw = pre \o body
    /\ url_once = None
    /\ url_twice = None

\* a caller normalises the raw URL
NormalizeRaw ==
    /\ url_once = None
    /\ url_once' = normalize_url(url_raw)
    /\ UNCHANGED <<url_raw, url_twice>>
    /\ UNCHANGED <<taxVars, valVars, mrgVars, ctrVars, segVars, tcVars, rlVars, jsonVars, clsVars, ownVars>>

\* a caller normalises a URL that is already the result of normalize_url
NormalizeAgain ==
    /\ url_once # None
    /\ url_twice = None
    /\ url_twice' = normalize_url(url_once)
    /\ UNCHANGED <<url_raw, url_once>>
    /\ UNCHANGED <<taxVars, valVars, mrgVars, ctrVars, segVars, tcVars, rlVars, jsonVars, clsVars, ownVars>>

NextUrl == NormalizeRaw \/ NormalizeAgain

SpecUrl == InitUrl /\ [][NextUrl]_vars

-----------------------------------------------------------------------------
(* backend/mcp_server.py: _normalize_and_validate_iab *)

\* an exception leaving the call (NameError: name 're' is not defined)
Raised == <<"NameError">>

\* the empty str
Empty == <<>>

\* Python truthiness of a str or None
Truthy(v) == v # None /\ v # Empty

\* index of the last character of the run of digits of s that starts at
\* position from; from - 1 when s has no digit there
RECURSIVE DigitsEnd(_, _)
DigitsEnd(s, from) ==
    IF from <= Len(s) /\ IsDigit(s[from]) THEN DigitsEnd(s, from + 1) ELSE from - 1

\* re.match(r'^(IAB\d+(?:-\d+)?)', text.strip()): the matched code, '' without match
extract_iab_code(text) ==
    IF ~Truthy(text) THEN Empty
    ELSE
      LET t  == Strip(text)
          e1 == DigitsEnd(t, 4)
          e2 == DigitsEnd(t, e1 + 2)
      IN  IF ~(StartsWith(t, IAB) /\ e1 >= 4) THEN Empty
          ELSE IF e1 + 1 <= Len(t) /\ t[e1 + 1] = "-" /\ e2 >= e1 + 2
               THEN SubSeq(t, 1, e2)
               ELSE SubSeq(t, 1, e1)

\* the label-based fallback of validate_iab_code: its first statement calls
\* re.sub, and the name re is bound in extract_iab_code only, so the
\* statement raises NameError
LabelLookup(label_text, code_map) == Raised

\* validate_iab_code returning the code text without looking it up in code_map
validate_iab_code_Unchecked(code, label_text, code_map) ==
    LET clean_code == IF Truthy(code) THEN extract_iab_code(code) ELSE Empty
        extracted  == extract_iab_code(label_text)
    IN  IF clean_code # Empty THEN clean_code
        ELSE IF Truthy(label_text) /\ extracted # Empty /\ extracted \in DOMAIN code_map
             THEN extracted
        ELSE IF Truthy(label_text) THEN LabelLookup(label_text, code_map)
        ELSE Empty

\* validate_iab_code: a code of code_map, '' when nothing resolves, or Raised
validate_iab_code(code, label_text, code_map) ==
    LET clean_code == IF Truthy(code) THEN extract_iab_code(code) ELSE Empty
        extracted  == extract_iab_code(label_text)
    IN  IF clean_code # Empty /\ clean_code \in DOMAIN code_map THEN clean_code
        ELSE IF Truthy(label_text) /\ extracted # Empty /\ extracted \in DOMAIN code_map
             THEN extracted
        ELSE IF Truthy(label_text) THEN LabelLookup(label_text, code_map)
        ELSE Empty

\* the relationship check with the subcategory cleared (sub_code = '')
CheckPair_Keep(sub_code, parent_code) == sub_code

\* the relationship check: the subcategory code after it
CheckPair(sub_code, parent_code) ==
    IF sub_code # Empty /\ parent_code # Empty
       /\ ~StartsWith(sub_code, parent_code \o <<"-">>)
    THEN Empty
    ELSE sub_code

\* code or None
OrNone(code) == IF code = Empty THEN None ELSE code

\* the four codes before the relationship checks, as validate_iab_code returns them
Resolved(result, code_map) ==
    [primary_code |-> validate_iab_code(result.iab_code, result.iab_category, code_map),
     sub_code     |-> validate_iab_code(result.iab_subcode, result.iab_subcategory, code_map),
     sec_code     |-> validate_iab_code(result.iab_secondary_code,
                                         result.iab_secondary_category, code_map),
     sec_sub_code |-> validate_iab_code(result.iab_secondary_subcode,
                                         result.iab_secondary_subcategory, code_map)]

_normalize_and_validate_iab(result, code_map) ==
    LET r == Resolved(result, code_map)
    IN  IF Raised \in {r.primary_code, r.sub_code, r.sec_code, r.sec_sub_code}
        THEN [status |-> "raised"]
        ELSE [status |-> "ok",
              iab_code |-> OrNone(r.primary_code),
              iab_subcode |-> OrNone(CheckPair(r.sub_code, r.primary_code)),
              iab_secondary_code |-> OrNone(r.sec_code),
              iab_secondary_subcode |-> OrNone(CheckPair(r.sec_sub_code, r.sec_code))]

\* field values of the completion service's answer
IAB1 == <<"I", "A", "B", "1">>
IAB2 == <<"I", "A", "B", "2">>

CodeTexts == { None, IAB1, IAB1 \o <<"-", "1">>, IAB1 \o <<"-", "1", "-", "1">>, <<"x">> }

LabelTexts == { None, IAB2 \o <<" ", "(", "b", ")">>, <<"a">>, <<"x", "x">> }

\* taxonomy indexes: code -> label
IndexFull ==
    (IAB1 :> <<"a">>) @@ (IAB2 :> <<"b">>) @@ ((IAB1 \o <<"-", "1">>) :> <<"b">>)
      @@ ((IAB2 \o <<"-", "1">>) :> <<"a">>) @@ ((IAB1 \o <<"-", "1", "-", "1">>) :> <<"a">>)

IndexChoices == { EmptyDict, IndexFull }

InitVal ==
    /\ IdleTax
    /\ IdleUrl
    /\ IdleMrg
    /\ IdleCtr
    /\ IdleSeg
    /\ IdleCache
    /\ IdleReload
    /\ IdleJson
    /\ IdleCls
    /\ IdleOwn
    /\ val_index \in IndexChoices
    /\ val_in \in [iab_code : CodeTexts, iab_category : LabelTexts,
                    iab_subcode : CodeTexts, iab_subcategory : LabelTexts,
                    iab_secondary_code : CodeTexts, iab_secondary_category : LabelTexts,
                    iab_secondary_subcode : CodeTexts, iab_secondary_subcategory : LabelTexts]
    /\ val_out = [status |-> "none"]

\* classify_url passes the parsed answer to _normalize_and_validate_iab
NormalizeAndValidate ==
    /\ val_out.status = "none"
    /\ val_out' = _normalize_and_validate_iab(val_in, val_index)
    /\ UNCHANGED <<val_index, val_in>>
    /\ UNCHANGED <<taxVars, urlVars, mrgVars, ctrVars, segVars, tcVars, rlVars, jsonVars, clsVars, ownVars>>

NextVal == NormalizeAndValidate

SpecVal == InitVal /\ [][NextVal]_vars

-----------------------------------------------------------------------------
(* backend/merge_attribution_with_classification.py: _create_merged_record *)

\* Values of record fields.  A number is the fraction n/d in lowest terms
\* with d > 0, so float arithmetic is exact here: rounding is not modelled.
Absent == [t |-> "absent"]

PyNone == [t |-> "none"]

PyStr(s) == [t |-> "str", s |-> s]

PyInt(n) == [t |-> "int", n |-> n, d |-> 1]

PyFloat(n, d) == [t |-> "float", n |-> n, d |-> d]

ValueError == [t |-> "ValueError"]

TypeError == [t |-> "TypeError"]

\* record.get(field)
DictGet(v) == IF v = Absent THEN PyNone ELSE v

Abs(n) == IF n < 0 THEN -n ELSE n

RECURSIVE GCD(_, _)
GCD(a, b) == IF b = 0 THEN a ELSE GCD(b, a % b)

\* the float n/d, d # 0
Fraction(n, d) ==
    IF d < 0 THEN PyFloat((-n) \div GCD(Abs(n), Abs(d)), (-d) \div GCD(Abs(n), Abs(d)))
    ELSE PyFloat(n \div GCD(Abs(n), Abs(d)), d \div GCD(Abs(n), Abs(d)))

\* a / b on floats, b # 0
TrueDiv(a, b) == Fraction(a.n * b.d, a.d * b.n)

\* a * b on floats
Mul(a, b) == Fraction(a.n * b.n, a.d * b.d)

\* value of a non-empty string of decimal digits
RECURSIVE DigitsValue(_)
DigitsValue(s) ==
    IF s = <<>> THEN 0
    ELSE 10 * DigitsValue(SubSeq(s, 1, Len(s) - 1))
         + (CHOOSE k \in 0..9 : Digits[k + 1] = s[Len(s)])

IsDigits(s) == s # <<>> /\ \A i \in 1..Len(s) : IsDigit(s[i])

\* float(v) for an int, a float, or a str that is blank or made of letters,
\* digits and blanks; None raises TypeError
float(v) ==
    CASE v.t = "int"   -> PyFloat(v.n, 1)
      [] v.t = "float" -> v
      [] v.t = "str"   -> IF IsDigits(Strip(v.s))
                          THEN PyFloat(DigitsValue(Strip(v.s)), 1)
                          ELSE ValueError
      [] OTHER         -> TypeError

\* the check of the uploaded rate: a number, and not the float 0.0
ctr_is_valid(uploaded_ctr) ==
    /\ uploaded_ctr # PyNone
    /\ uploaded_ctr # PyStr(<<>>)
    /\ uploaded_ctr.t \in {"int", "float"}
    /\ ~(uploaded_ctr.t = "float" /\ uploaded_ctr.d = 1 /\ uploaded_ctr.n = 0)

\* the try block: the rate computed from two floats, Absent when
\* impressions_val <= 0 (merged_record['attribution_ctr'] is not assigned)
calculated_ctr_NoPercent(clicks_val, impressions_val) ==
    IF impressions_val.n > 0
    THEN TrueDiv(clicks_val, impressions_val)
    ELSE Absent

calculated_ctr_ZeroRate(clicks_val, impressions_val) ==
    IF impressions_val.n > 0
    THEN Mul(TrueDiv(clicks_val, impressions_val), PyFloat(100, 1))
    ELSE PyFloat(0, 1)

calculated_ctr(clicks_val, impressions_val) ==
    IF impressions_val.n > 0
    THEN Mul(TrueDiv(clicks_val, impressions_val), PyFloat(100, 1))
    ELSE Absent

\* the try block with its conversions; Absent too when float() raises
\* ValueError or TypeError (the except clause passes)
TryCalculate(clicks, impressions) ==
    IF float(clicks) \in {ValueError, TypeError} THEN Absent
    ELSE IF float(impressions) \in {ValueError, TypeError} THEN Absent
    ELSE calculated_ctr(float(clicks), float(impressions))

\* merged_record['attribution_ctr'] after the copy loop and the CTR block
AttributionCtr(uploaded, uploaded_ctr, clicks, impressions) ==
    IF ~ctr_is_valid(uploaded_ctr) /\ clicks # PyNone /\ impressions # PyNone
    THEN IF TryCalculate(clicks, impressions) # Absent
         THEN TryCalculate(clicks, impressions)
         ELSE uploaded
    ELSE uploaded

\* a document of attribution_data as upload_attribution writes it
AttributionRecord(url, ctr, clicks, impressions) ==
    [url |-> url, url_normalized |-> normalize_url(url),
     ctr |-> ctr, clicks |-> clicks, impressions |-> impressions]

\* a document of classified_urls as save_classification writes it
ClassificationRecord(url, iab_code) ==
    [url |-> url, url_normalized |-> normalize_url(url), iab_code |-> iab_code]

\* the attribution_ and classification_ fields are copied when the key is in
\* the source record; of the copied fields the model keeps ctr, clicks,
\* impressions, user_id and iab_code
\* a variant that marks every merged record as having attribution data
_create_merged_record_AlwaysAttribution(url, attribution_record, classification_record, utcnow) ==
    IF attribution_record = PyNone /\ classification_record = PyNone
    THEN PyNone
    ELSE [url |-> url,
          merged_at |-> utcnow,
          has_attribution_data |-> TRUE,
          has_classification_data |-> classification_record # PyNone,
          attribution_ctr |->
              IF attribution_record = PyNone THEN Absent
              ELSE AttributionCtr(attribution_record.ctr,
                                  DictGet(attribution_record.ctr),
                                  DictGet(attribution_record.clicks),
                                  DictGet(attribution_record.impressions)),
          attribution_clicks |->
              IF attribution_record = PyNone THEN Absent
              ELSE attribution_record.clicks,
          attribution_impressions |->
              IF attribution_record = PyNone THEN Absent
              ELSE attribution_record.impressions,
          attribution_user_id |->
              IF attribution_record = PyNone \/ "user_id" \notin DOMAIN attribution_record
              THEN Absent
              ELSE attribution_record.user_id,
          classification_iab_code |->
              IF classification_record = PyNone THEN Absent
              ELSE classification_record.iab_code]

_create_merged_record(url, attribution_record, classification_record, utcnow) ==
    IF attribution_record = PyNone /\ classification_record = PyNone
    THEN PyNone
    ELSE [url |-> url,
          merged_at |-> utcnow,
          has_attribution_data |-> attribution_record # PyNone,
          has_classification_data |-> classification_record # PyNone,
          attribution_ctr |->
              IF attribution_record = PyNone THEN Absent
              ELSE AttributionCtr(attribution_record.ctr,
                                  DictGet(attribution_record.ctr),
                                  DictGet(attribution_record.clicks),
                                  DictGet(attribution_record.impressions)),
          attribution_clicks |->
              IF attribution_record = PyNone THEN Absent
              ELSE attribution_record.clicks,
          attribution_impressions |->
              IF attribution_record = PyNone THEN Absent
              ELSE attribution_record.impressions,
          attribution_user_id |->
              IF attribution_record = PyNone \/ "user_id" \notin DOMAIN attribution_record
              THEN Absent
              ELSE attribution_record.user_id,
          classification_iab_code |->
              IF classification_record = PyNone THEN Absent
              ELSE classification_record.iab_code]

\* field values a document of attribution_data can hold
MetricValues ==
    { Absent, PyNone, PyStr(<<>>), PyStr(<<"a">>), PyStr(<<"5", "0">>),
      PyInt(0), PyInt(3), PyInt(50), PyInt(1000),
      PyFloat(0, 1), PyFloat(5, 2), PyFloat(1000, 1) }

SiteUrl == <<"a", ".", "b">>

InitCtr ==
    /\ IdleTax
    /\ IdleUrl
    /\ IdleVal
    /\ IdleMrg
    /\ IdleSeg
    /\ IdleCache
    /\ IdleReload
    /\ IdleJson
    /\ IdleCls
    /\ IdleOwn
    /\ \E ctr \in MetricValues, clicks \in MetricValues, impressions \in MetricValues :
         ctr_record = AttributionRecord(SiteUrl, ctr, clicks, impressions)
    /\ ctr_merged = [status |-> "none"]

\* _process_url_merge builds the merged record of a URL that has an
\* attribution record, with or without a classification record
CreateMergedRecord ==
    /\ ctr_merged.status = "none"
    /\ \E classification_record \in {PyNone, ClassificationRecord(SiteUrl, IAB1)} :
         ctr_merged' = [status |-> "ok",
                        record |-> _create_merged_record(SiteUrl, ctr_record,
                                                         classification_record, 1)]
    /\ UNCHANGED ctr_record
    /\ UNCHANGED <<taxVars, urlVars, valVars, mrgVars, segVars, tcVars, rlVars, jsonVars, clsVars, ownVars>>

NextCtr == CreateMergedRecord

SpecCtr == InitCtr /\ [][NextCtr]_vars

-----------------------------------------------------------------------------
(* backend/merge_attribution_with_classification.py: merge_attribution_data,
   with the writers of its source collections *)

\* raw URLs of uploads and classifications: two URLs that normalise to the
\* same URL
RawUrls == { <<"a", ".", "b">>, <<"A", ".", "b">> }

\* cells of an uploaded CSV row
CtrCells == { PyStr(<<>>), PyStr(<<"3">>) }

ClickCells == { PyStr(<<"5", "0">>) }

ImpressionCells == { PyStr(<<"1", "0", "0", "0">>) }

\* iab_code of a stored classification
CodeChoices == { IAB1 }

\* the document id of a URL: "url_" and the md5 digest of the URL, the
\* digest taken as the URL itself (no two URLs of the model collide)
_create_doc_id(url) == <<"url_">> \o url

NaNWords == { <<"n", "o", "n", "e">>, <<"n", "u", "l", "l">>, <<"n", "a", "n">> }

\* mcp_server._parse_number: None or a float
_parse_number(value) ==
    IF value = PyStr(<<>>) \/ value = PyNone THEN PyNone
    ELSE IF value.t = "str" /\ Lower(value.s) \in NaNWords THEN PyNone
    ELSE IF float(value) \in {ValueError, TypeError} THEN PyNone
    ELSE float(value)

InsertAt(seq, pos, x) == SubSeq(seq, 1, pos - 1) \o <<x>> \o SubSeq(seq, pos, Len(seq))

\* FirebaseService.save_classification: set() on the document of the URL
save_classification(coll, url, iab_code) ==
    Put(coll, _create_doc_id(url), ClassificationRecord(url, iab_code))

\* the documents of a collection as stream() yields them, by document id
RECURSIVE Stream(_)
Stream(coll) ==
    IF DOMAIN coll = {} THEN <<>>
    ELSE LET first == CHOOSE d \in DOMAIN coll :
                          \A e \in DOMAIN coll : e = d \/ StrLess(d, e)
         IN  <<coll[first]>> \o Stream([d \in DOMAIN coll \ {first} |-> coll[d]])

\* {record['url']: record for record in data}: a later record replaces an
\* earlier one with the same url
Lookup_FirstWins(data) ==
    [u \in { data[i].url : i \in DOMAIN data } |->
        data[CHOOSE i \in DOMAIN data :
                /\ data[i].url = u
                /\ \A j \in DOMAIN data : data[j].url = u => j >= i]]

Lookup(data) ==
    [u \in { data[i].url : i \in DOMAIN data } |->
        data[CHOOSE i \in DOMAIN data :
                /\ data[i].url = u
                /\ \A j \in DOMAIN data : data[j].url = u => j <= i]]

\* lookup.get(url)
LookupGet(lookup, url) == IF url \in DOMAIN lookup THEN lookup[url] ELSE PyNone

Inc(stats, counter) == [stats EXCEPT ![counter] = @ + 1]

\* the counters with a URL that has both records counted under
\* successful_merges and under attribution_only
Counted_Twice(stats, attribution_record, classification_record) ==
    IF attribution_record # PyNone /\ classification_record # PyNone
    THEN Inc(Inc(stats, "successful_merges"), "attribution_only")
    ELSE IF attribution_record # PyNone THEN Inc(stats, "attribution_only")
    ELSE IF classification_record # PyNone THEN Inc(stats, "classification_only")
    ELSE stats

\* the counter _process_url_merge increments after a successful save
Counted(stats, attribution_record, classification_record) ==
    IF attribution_record # PyNone /\ classification_record # PyNone
    THEN Inc(stats, "successful_merges")
    ELSE IF attribution_record # PyNone THEN Inc(stats, "attribution_only")
    ELSE IF classification_record # PyNone THEN Inc(stats, "classification_only")
    ELSE stats

\* _save_merged_record and the branch of _process_url_merge on its result:
\* set() on the document of the URL, or nothing written when set() raises
SaveAndCount_Uncounted(acc, url, merged_record, attribution_record, classification_record, write_fails) ==
    IF write_fails
    THEN acc
    ELSE [stats |-> Counted(acc.stats, attribution_record, classification_record),
          merged |-> Put(acc.merged, _create_doc_id(url), merged_record)]

SaveAndCount_ClearFirst(acc, url, merged_record, attribution_record, classification_record, write_fails) ==
    IF write_fails
    THEN [stats |-> Inc(acc.stats, "errors"), merged |-> acc.merged]
    ELSE [stats |-> Counted(acc.stats, attribution_record, classification_record),
          merged |-> Put([d \in { e \in DOMAIN acc.merged :
                                    acc.merged[e].merged_at = merged_record.merged_at }
                            |-> acc.merged[d]],
                         _create_doc_id(url), merged_record)]

SaveAndCount(acc, url, merged_record, attribution_record, classification_record, write_fails) ==
    IF write_fails
    THEN [stats |-> Inc(acc.stats, "errors"), merged |-> acc.merged]
    ELSE [stats |-> Counted(acc.stats, attribution_record, classification_record),
          merged |-> Put(acc.merged, _create_doc_id(url), merged_record)]

MergeOne(acc, url, attribution_record, classification_record, write_fails, utcnow) ==
    IF _create_merged_record(url, attribution_record, classification_record, utcnow) # PyNone
    THEN SaveAndCount(acc, url,
                      _create_merged_record(url, attribution_record,
                                            classification_record, utcnow),
                      attribution_record, classification_record, write_fails)
    ELSE [stats |-> Inc(acc.stats, "skipped"), merged |-> acc.merged]

\* acc is the statistics and the merged collection so far
_process_url_merge(acc, url, attribution_lookup, classification_lookup, failing, utcnow) ==
    MergeOne(acc, url, LookupGet(attribution_lookup, url),
             LookupGet(classification_lookup, url), url \in failing, utcnow)

\* for url in all_urls: self._process_url_merge(...)
RECURSIVE ProcessUrls(_, _, _, _, _, _)
ProcessUrls(acc, all_urls, attribution_lookup, classification_lookup, failing, utcnow) ==
    IF all_urls = {} THEN acc
    ELSE LET url == CHOOSE u \in all_urls : TRUE
         IN  ProcessUrls(_process_url_merge(acc, url, attribution_lookup,
                                            classification_lookup, failing, utcnow),
                         all_urls \ {url}, attribution_lookup,
                         classification_lookup, failing, utcnow)

\* record['url'] raises KeyError for a record of the list without the key
KeyErrorIn(data) == \E i \in DOMAIN data : "url" \notin DOMAIN data[i]

\* the statistics after the two loads
LoadedStats(attribution_loaded, classification_loaded) ==
    [ZeroStats EXCEPT !.total_attribution_records = Len(attribution_loaded),
                      !.total_classification_records = Len(classification_loaded)]

\* the return value of a run whose loop ended: success
Completed(acc) == [success |-> TRUE, stats |-> acc.stats, merged |-> acc.merged]

\* the body of merge_attribution_data from the two loaded lists on: a
\* KeyError of the lookups leaves the try block before any URL is processed
\* and the except clause counts one error and returns success = False
MergeLoaded(attribution_loaded, classification_loaded, failing, utcnow) ==
    IF KeyErrorIn(attribution_loaded) \/ KeyErrorIn(classification_loaded)
    THEN [success |-> FALSE,
          stats |-> Inc(LoadedStats(attribution_loaded, classification_loaded), "errors"),
          merged |-> merged_content_signals]
    ELSE Completed(
           ProcessUrls([stats |-> LoadedStats(attribution_loaded, classification_loaded),
                        merged |-> merged_content_signals],
                       DOMAIN Lookup(attribution_loaded)
                           \cup DOMAIN Lookup(classification_loaded),
                       Lookup(attribution_loaded), Lookup(classification_loaded),
                       failing, utcnow))

\* _get_all_attribution_data: the documents, [] when the read raises
_get_all_attribution_data(read_ok) == IF read_ok THEN attribution_data ELSE <<>>

\* _get_all_classification_data: the documents, [] when the read raises
_get_all_classification_data(read_ok) == IF read_ok THEN Stream(classified_urls) ELSE <<>>

\* a fresh merger runs; failing is the set of URLs whose set() raises
merge_attribution_data(attribution_read_ok, classification_read_ok, failing, utcnow) ==
    MergeLoaded(_get_all_attribution_data(attribution_read_ok),
                _get_all_classification_data(classification_read_ok),
                failing, utcnow)

InitMrg ==
    /\ IdleTax
    /\ IdleUrl
    /\ IdleVal
    /\ IdleCtr
    /\ IdleSeg
    /\ IdleCache
    /\ IdleReload
    /\ IdleMrg
    /\ IdleJson
    /\ IdleCls
    /\ IdleOwn

\* POST /upload-attribution with one data row: the URL is classified and the
\* classification saved when none is stored for it (classified: the
\* classification succeeds), the row is added as a new document under an id
\* of Firestore's choice (pos: its place in the stream), and the merge that
\* follows is called with a keyword the function does not take, so no merge
\* runs
UploadAttribution ==
    /\ Len(attribution_data) < MaxAttr
    /\ \E url \in RawUrls, ctr \in CtrCells, clicks \in ClickCells,
          impressions \in ImpressionCells,
          pos \in 1..(Len(attribution_data) + 1) :
         /\ IF _create_doc_id(url) \in DOMAIN classified_urls
            THEN UNCHANGED classified_urls
            ELSE \E classified \in BOOLEAN, iab_code \in CodeChoices :
                    classified_urls' =
                        IF classified
                        THEN save_classification(classified_urls, url, iab_code)
                        ELSE classified_urls
         /\ attribution_data' =
                InsertAt(attribution_data, pos,
                         AttributionRecord(url, _parse_number(ctr),
                                           _parse_number(clicks),
                                           _parse_number(impressions)))
    /\ UNCHANGED <<merged_content_signals, now, merge_result>>
    /\ UNCHANGED <<taxVars, urlVars, valVars, ctrVars, segVars, tcVars, rlVars, jsonVars, clsVars, ownVars>>

\* classify_url stores the classification of a URL (first classification or
\* forced reclassification)
SaveClassification ==
    /\ \E url \in RawUrls, iab_code \in CodeChoices :
         classified_urls' = save_classification(classified_urls, url, iab_code)
    /\ UNCHANGED <<attribution_data, merged_content_signals, now, merge_result>>
    /\ UNCHANGED <<taxVars, urlVars, valVars, ctrVars, segVars, tcVars, rlVars, jsonVars, clsVars, ownVars>>

\* clear_classification_cache.py deletes every document of classified_urls
ClearClassificationCache ==
    /\ classified_urls # EmptyDict
    /\ classified_urls' = EmptyDict
    /\ UNCHANGED <<attribution_data, merged_content_signals, now, merge_result>>
    /\ UNCHANGED <<taxVars, urlVars, valVars, ctrVars, segVars, tcVars, rlVars, jsonVars, clsVars, ownVars>>

\* the URLs of the documents of the two source collections
StoredUrls ==
    { attribution_data[i].url :
          i \in { j \in DOMAIN attribution_data : "url" \in DOMAIN attribution_data[j] } }
        \cup { classified_urls[d].url : d \in DOMAIN classified_urls }

\* merge_attribution_data() runs from start to end: each read of a source
\* collection succeeds or raises, and so does each write of a merged record
MergeRun ==
    /\ now < MaxRuns
    /\ now' = now + 1
    /\ \E attribution_read_ok \in BOOLEAN, classification_read_ok \in BOOLEAN,
          failing \in SUBSET StoredUrls :
         \E result \in { merge_attribution_data(attribution_read_ok,
                              classification_read_ok, failing, now') } :
            /\ merge_result' = [status |-> "done", success |-> result.success,
                                statistics |-> result.stats]
            /\ merged_content_signals' = result.merged
    /\ UNCHANGED <<attribution_data, classified_urls>>
    /\ UNCHANGED <<taxVars, urlVars, valVars, ctrVars, segVars, tcVars, rlVars, jsonVars, clsVars, ownVars>>

Next == UploadAttribution \/ SaveClassification \/ ClearClassificationCache \/ MergeRun

Spec == InitMrg /\ [][Next]_vars

-----------------------------------------------------------------------------
(* backend/firebase_service.py: save_attribution_data, the writer that stores
   a caller's dict as given, and the merge over what it stored *)

\* the metric fields of a stored dict
StoreMetrics ==
    [ctr |-> PyNone, clicks |-> PyFloat(50, 1), impressions |-> PyFloat(1000, 1)]

\* dicts a caller passes as attribution_data: without a url key, with the
\* empty url, with a raw URL
StoreDocs ==
    { StoreMetrics, ("url" :> <<>>) @@ StoreMetrics }
        \cup { ("url" :> u) @@ StoreMetrics : u \in RawUrls }

\* the documents in stream order after set() on the document doc._id
RECURSIVE SetDoc(_, _)
SetDoc(docs, doc) ==
    IF docs = <<>> THEN <<doc>>
    ELSE IF Head(docs)._id = doc._id THEN <<doc>> \o Tail(docs)
    ELSE IF StrLess(doc._id, Head(docs)._id) THEN <<doc>> \o docs
    ELSE <<Head(docs)>> \o SetDoc(Tail(docs), doc)

\* FirebaseService.save_attribution_data(url, attribution_data): the dict is
\* stored under the document id of url; the loader adds the id as _id
save_attribution_data(docs, url, data) ==
    SetDoc(docs, ("_id" :> _create_doc_id(url)) @@ data)

SaveAttributionData ==
    /\ \E url \in RawUrls, data \in StoreDocs :
         attribution_data' = save_attribution_data(attribution_data, url, data)
    /\ UNCHANGED <<classified_urls, merged_content_signals, now, merge_result>>
    /\ UNCHANGED <<taxVars, urlVars, valVars, ctrVars, segVars, tcVars, rlVars, jsonVars, clsVars, ownVars>>

NextStore == SaveAttributionData \/ MergeRun

SpecStore == InitMrg /\ [][NextStore]_vars

-----------------------------------------------------------------------------
(* backend/mcp_server.py: the segment endpoints over merged_content_signals *)

\* float('nan'), float('inf'), float('-inf')
NaN == PyFloat(0, 0)

PosInf == PyFloat(1, 0)

NegInf == PyFloat(-1, 0)

\* a < b on floats
FloatLess(a, b) ==
    IF a = NaN \/ b = NaN \/ a = b THEN FALSE
    ELSE IF a = NegInf \/ b = PosInf THEN TRUE
    ELSE IF a = PosInf \/ b = NegInf THEN FALSE
    ELSE a.n * b.d < b.n * a.d

\* a <= b on floats
FloatLE(a, b) == a # NaN /\ b # NaN /\ ~FloatLess(b, a)

\* record.get(field) on a document
RowGet(row, field) == IF field \in DOMAIN row THEN DictGet(row[field]) ELSE PyNone

\* an ISO-8601 UTC time: a day number and the second of that day
Timestamp(day, sec) == [t |-> "iso", day |-> day, sec |-> sec]

\* a <= b on ISO strings
IsoLE(a, b) == a.day < b.day \/ (a.day = b.day /\ a.sec <= b.sec)

\* datetime.utcnow() of the requests, as a day number
UtcToday == 40

DefaultDays == 30

LastSecond == 86399

\* to_iso_bounds
to_iso_bounds(date_str, is_start) ==
    IF is_start THEN Timestamp(date_str, 0) ELSE Timestamp(date_str, LastSecond)

\* the documents the upload_date query streams: a where() clause keeps only
\* documents that have the field
QueryByUploadDate(docs, start_str, end_str) ==
    LET start_iso == IF start_str = PyNone /\ end_str = PyNone
                     THEN to_iso_bounds(UtcToday - DefaultDays, TRUE)
                     ELSE IF start_str # PyNone THEN to_iso_bounds(start_str, TRUE)
                     ELSE PyNone
        end_iso == IF start_str = PyNone /\ end_str = PyNone
                   THEN to_iso_bounds(UtcToday, FALSE)
                   ELSE IF end_str # PyNone THEN to_iso_bounds(end_str, FALSE)
                   ELSE PyNone
        Kept(doc) == /\ "upload_date" \in DOMAIN doc
                     /\ doc.upload_date # Absent
                     /\ start_iso # PyNone => IsoLE(start_iso, doc.upload_date)
                     /\ end_iso # PyNone => IsoLE(doc.upload_date, end_iso)
    IN  SelectSeq(docs, Kept)

\* rec.get(field) or ''
OrEmpty(v) == IF v = PyNone THEN PyStr(<<>>) ELSE v

\* _fetch_merged_with_filters.matches_iab
matches_iab(rec, include_iab, exclude_iab) ==
    LET primary == OrEmpty(RowGet(rec, "classification_iab_code"))
        secondary == OrEmpty(RowGet(rec, "classification_iab_secondary_code"))
    IN  /\ include_iab # {} => (primary \in include_iab \/ secondary \in include_iab)
        /\ exclude_iab # {} => ~(primary \in exclude_iab \/ secondary \in exclude_iab)

\* _map_sort_param
_map_sort_param(sort_param) ==
    CASE sort_param = "click_through_rate" -> "attribution_ctr"
      [] sort_param = "ctr"                -> "attribution_ctr"
      [] sort_param = "conversions"        -> "attribution_conversions"
      [] sort_param = "viewability"        -> "attribution_viewability"
      [] sort_param = "scroll_depth"       -> "attribution_scroll_depth"
      [] sort_param = "impressions"        -> "attribution_impressions"
      [] sort_param = "fill_rate"          -> "attribution_fill_rate"
      [] OTHER                             -> "attribution_conversions"

\* _extract_numeric
_extract_numeric(value, reverse) ==
    IF float(value) \in {ValueError, TypeError}
    THEN IF reverse THEN NegInf ELSE PosInf
    ELSE float(value)

Reverse(s) == [i \in 1..Len(s) |-> s[Len(s) + 1 - i]]

\* listsort's count_run: the last index of the run that starts the list,
\* k being in it
RECURSIVE count_run(_, _, _)
count_run(items, k, descending) ==
    IF k = Len(items) THEN k
    ELSE IF FloatLess(items[k + 1].key, items[k].key) = descending
         THEN count_run(items, k + 1, descending)
         ELSE k

\* listsort's binarysort: where the pivot goes in items[l .. r-1]
RECURSIVE BinarySearch(_, _, _, _)
BinarySearch(items, pivot, l, r) ==
    IF l >= r THEN l
    ELSE IF FloatLess(pivot.key, items[l + ((r - l) \div 2)].key)
         THEN BinarySearch(items, pivot, l, l + ((r - l) \div 2))
         ELSE BinarySearch(items, pivot, l + ((r - l) \div 2) + 1, r)

\* listsort's binarysort: items[1 .. start-1] is sorted, the rest is inserted
RECURSIVE binarysort(_, _)
binarysort(items, start) ==
    IF start > Len(items) THEN items
    ELSE binarysort(InsertAt(SubSeq(items, 1, start - 1),
                             BinarySearch(items, items[start], 1, start),
                             items[start])
                        \o SubSeq(items, start + 1, Len(items)),
                    start + 1)

\* the first run, put in ascending order
FirstRun(items, descending) ==
    IF descending
    THEN Reverse(SubSeq(items, 1, count_run(items, 2, TRUE)))
    ELSE SubSeq(items, 1, count_run(items, 2, FALSE))

\* listsort on a list shorter than 64 items: one run, extended by binarysort
listsort(items) ==
    IF Len(items) < 2 THEN items
    ELSE binarysort(
             FirstRun(items, FloatLess(items[2].key, items[1].key))
                 \o SubSeq(items,
                           count_run(items, 2, FloatLess(items[2].key, items[1].key)) + 1,
                           Len(items)),
             count_run(items, 2, FloatLess(items[2].key, items[1].key)) + 1)

\* records.sort(key=lambda r: _extract_numeric(r.get(field), reverse), reverse=reverse)
SortRecords(records, field, reverse) ==
    LET items == [i \in 1..Len(records) |->
                     [key |-> _extract_numeric(RowGet(records[i], field), reverse),
                      rec |-> records[i]]]
        sorted == IF reverse THEN Reverse(listsort(Reverse(items))) ELSE listsort(items)
    IN  [i \in 1..Len(records) |-> sorted[i].rec]

\* records[:limit], limit >= 0
Slice(records, limit) ==
    IF limit >= Len(records) THEN records ELSE SubSeq(records, 1, limit)

\* _fetch_merged_with_filters
_fetch_merged_with_filters(docs, start_str, end_str, include_iab, exclude_iab, sort_param, order, limit) ==
    LET records == QueryByUploadDate(docs, start_str, end_str)
        MatchesIab(r) == matches_iab(r, include_iab, exclude_iab)
        filtered == IF include_iab # {} \/ exclude_iab # {}
                    THEN SelectSeq(records, MatchesIab)
                    ELSE records
    IN  Slice(SortRecords(filtered, _map_sort_param(sort_param), order # "asc"), limit)

\* _apply_kpi_filters.field_map
field_map ==
    [ctr |-> "attribution_ctr",
     viewability |-> "attribution_viewability",
     scroll_depth |-> "attribution_scroll_depth",
     conversions |-> "attribution_conversions",
     impressions |-> "attribution_impressions",
     fill_rate |-> "attribution_fill_rate"]

\* float(val) if val is not None else None, None on failure
Valf(val) ==
    IF val = PyNone THEN PyNone
    ELSE IF float(val) \in {ValueError, TypeError} THEN PyNone
    ELSE float(val)

\* _apply_kpi_filters.pass_filters
pass_filters(r, kpi_filters) ==
    \A k \in DOMAIN kpi_filters :
        k \in DOMAIN field_map =>
            /\ Valf(RowGet(r, field_map[k])) # PyNone
            /\ "gte" \in DOMAIN kpi_filters[k]
                   => FloatLE(kpi_filters[k].gte, Valf(RowGet(r, field_map[k])))
            /\ "lte" \in DOMAIN kpi_filters[k]
                   => FloatLE(Valf(RowGet(r, field_map[k])), kpi_filters[k].lte)

\* _apply_kpi_filters
_apply_kpi_filters(records, kpi_filters) ==
    LET PassFilters(r) == pass_filters(r, kpi_filters)
    IN  SelectSeq(records, PassFilters)

\* _fetch_records_for_segment, the rules already taken apart by _rules_to_params
_fetch_records_for_segment(docs, rules, limit) ==
    LET records == _fetch_merged_with_filters(docs, rules.start, rules.end,
                                              rules.include_iab, rules.exclude_iab,
                                              rules.sort_by, rules.order, limit)
    IN  Slice(IF DOMAIN rules.kpi_filters # {}
              THEN _apply_kpi_filters(records, rules.kpi_filters)
              ELSE records,
              limit)

\* export_segment_min.row_has_code
row_has_code(row, codes) ==
    \/ codes = {}
    \/ \E c \in codes :
          c \in { RowGet(row, "classification_iab_code"),
                  RowGet(row, "classification_iab_subcode") }

\* export_segment_min: the rows of the CSV, none when the request is refused;
\* the segment named by segmentId is never read
export_segment_min(docs, seg_id, include_codes, exclude_codes) ==
    LET Included(r) == row_has_code(r, include_codes)
        NotExcluded(r) == ~row_has_code(r, exclude_codes)
        included == IF include_codes # {} THEN SelectSeq(docs, Included) ELSE docs
    IN  IF seg_id = PyNone /\ include_codes = {} /\ exclude_codes = {} THEN <<>>
        ELSE IF exclude_codes # {} THEN SelectSeq(included, NotExcluded)
        ELSE included

IAB1_2 == IAB1 \o <<"-", "2">>

\* the code lists a request names
IabCodeSets == SUBSET { PyStr(IAB1), PyStr(IAB1_2), PyStr(IAB2) }

\* documents that differ in their classification codes
TaxonomyDocs ==
    { [upload_date |-> Timestamp(UtcToday - 1, 0),
       classification_iab_code |-> primary,
       classification_iab_subcode |-> sub,
       classification_iab_secondary_code |-> secondary,
       attribution_conversions |-> PyFloat(1, 1),
       attribution_revenue |-> PyFloat(5, 1)] :
         primary \in { PyStr(IAB1), PyStr(IAB2), PyNone },
         sub \in { PyStr(IAB1_2), PyNone },
         secondary \in { PyStr(IAB2), PyNone } }

\* documents that differ in their metrics and in having an upload_date
MetricDocs ==
    { [upload_date |-> date,
       classification_iab_code |-> PyStr(IAB1),
       classification_iab_subcode |-> PyNone,
       classification_iab_secondary_code |-> PyStr(IAB2),
       attribution_conversions |-> conversions,
       attribution_revenue |-> PyFloat(5, 1)] :
         date \in { Absent, Timestamp(UtcToday - 1, 0) },
         conversions \in { PyNone, NaN, PyFloat(1, 1), PyFloat(2, 1) } }

\* the kpi_filters of a rule set
KpiChoices ==
    { << >>,
      [conversions |-> [gte |-> PyFloat(2, 1)]],
      [conversions |-> [lte |-> PyFloat(1, 1)]],
      [revenue |-> [gte |-> PyFloat(10, 1)]] }

InitSegTax ==
    /\ \E n \in 0..MaxTaxDocs : seg_docs \in [1..n -> TaxonomyDocs]
    /\ seg_call = [op |-> "none"]
    /\ seg_result = <<>>
    /\ IdleTax
    /\ IdleUrl
    /\ IdleVal
    /\ IdleMrg
    /\ IdleCtr
    /\ IdleCache
    /\ IdleReload
    /\ IdleJson
    /\ IdleCls
    /\ IdleOwn

InitSeg ==
    /\ \E n \in 0..MaxDocs : seg_docs \in [1..n -> MetricDocs]
    /\ seg_call = [op |-> "none"]
    /\ seg_result = <<>>
    /\ IdleTax
    /\ IdleUrl
    /\ IdleVal
    /\ IdleMrg
    /\ IdleCtr
    /\ IdleCache
    /\ IdleReload
    /\ IdleJson
    /\ IdleCls
    /\ IdleOwn

\* GET /segments/<id>/preview and /export: the rows of the segment's rules
FetchRecordsForSegment(includes, excludes, orders, kpis, limits) ==
    /\ \E include_iab \in includes, exclude_iab \in excludes, order \in orders,
          kpi_filters \in kpis, limit \in limits :
         LET rules == [start |-> PyNone, end |-> PyNone,
                       include_iab |-> include_iab, exclude_iab |-> exclude_iab,
                       sort_by |-> "conversions", order |-> order,
                       kpi_filters |-> kpi_filters]
         IN  /\ seg_call' = [op |-> "segment", rules |-> rules, limit |-> limit]
             /\ seg_result' = _fetch_records_for_segment(seg_docs, rules, limit)
    /\ UNCHANGED seg_docs
    /\ UNCHANGED <<taxVars, urlVars, valVars, mrgVars, ctrVars, tcVars, rlVars, jsonVars, clsVars, ownVars>>

\* POST /export-segment
ExportSegmentMin ==
    /\ \E seg_id \in { PyNone, PyStr(<<"s">>) },
          include_codes \in IabCodeSets, exclude_codes \in IabCodeSets :
         /\ seg_call' = [op |-> "export_min", segmentId |-> seg_id,
                         include_codes |-> include_codes,
                         exclude_codes |-> exclude_codes]
         /\ seg_result' = export_segment_min(seg_docs, seg_id, include_codes,
                                             exclude_codes)
    /\ UNCHANGED seg_docs
    /\ UNCHANGED <<taxVars, urlVars, valVars, mrgVars, ctrVars, tcVars, rlVars, jsonVars, clsVars, ownVars>>

NextSegTax ==
    \/ FetchRecordsForSegment(IabCodeSets, IabCodeSets, {"desc"}, {<< >>}, {MaxDocs})
    \/ ExportSegmentMin

SpecSegTax == InitSegTax /\ [][NextSegTax]_vars

NextSeg == FetchRecordsForSegment({{}}, {{}}, {"asc", "desc"}, KpiChoices, 1..MaxDocs)

SpecSeg == InitSeg /\ [][NextSeg]_vars

-----------------------------------------------------------------------------
(* backend/iab_taxonomy.py: load_iab_taxonomy and its module-level cache,
   one step per read or write of a global *)

\* the threads of the server that call load_iab_taxonomy
Threads == 1..MaxThreads

\* the values of tsv_path
Paths == { "p", "q" }

\* the empty list
NoItems == [built_from |-> ""]

\* the list built from the file at path by the build numbered k
Built(path, k) == [built_from |-> path, build |-> k]

\* bool(list)
NonEmpty(items) == items # NoItems

RuntimeError == [t |-> "RuntimeError"]

OSError == [t |-> "OSError"]

InitCache ==
    /\ iab_cache = NoItems
    /\ iab_path = ""
    /\ headers_info = ""
    /\ load_pc = [t \in Threads |-> "idle"]
    /\ load_path = [t \in Threads |-> ""]
    /\ load_items = [t \in Threads |-> NoItems]
    /\ load_result = [t \in Threads |-> PyNone]
    /\ IdleReload
    /\ IdleTax
    /\ IdleUrl
    /\ IdleVal
    /\ IdleMrg
    /\ IdleCtr
    /\ IdleSeg
    /\ IdleJson
    /\ IdleCls
    /\ IdleOwn

\* path = tsv_path or _env_path()
LoadCall(t) ==
    /\ load_pc[t] = "idle"
    /\ \E path \in Paths : load_path' = [load_path EXCEPT ![t] = path]
    /\ load_items' = [load_items EXCEPT ![t] = NoItems]
    /\ load_result' = [load_result EXCEPT ![t] = PyNone]
    /\ load_pc' = [load_pc EXCEPT ![t] = "read_cache"]
    /\ UNCHANGED <<iab_cache, iab_path, headers_info>>
    /\ UNCHANGED <<taxVars, urlVars, valVars, mrgVars, ctrVars, segVars, rlVars, jsonVars, clsVars, ownVars>>

\* if _IAB_CACHE ...
ReadCache(t) ==
    /\ load_pc[t] = "read_cache"
    /\ load_pc' = [load_pc EXCEPT ![t] = IF NonEmpty(iab_cache) THEN "read_path"
                                         ELSE "build"]
    /\ UNCHANGED <<iab_cache, iab_path, headers_info, load_path, load_items, load_result>>
    /\ UNCHANGED <<taxVars, urlVars, valVars, mrgVars, ctrVars, segVars, rlVars, jsonVars, clsVars, ownVars>>

\* ... and _IAB_PATH == path:
ReadPath(t) ==
    /\ load_pc[t] = "read_path"
    /\ load_pc' = [load_pc EXCEPT ![t] = IF iab_path = load_path[t] THEN "return_cached"
                                         ELSE "build"]
    /\ UNCHANGED <<iab_cache, iab_path, headers_info, load_path, load_items, load_result>>
    /\ UNCHANGED <<taxVars, urlVars, valVars, mrgVars, ctrVars, segVars, rlVars, jsonVars, clsVars, ownVars>>

\* return _IAB_CACHE
ReturnCached(t) ==
    /\ load_pc[t] = "return_cached"
    /\ load_result' = [load_result EXCEPT ![t] = iab_cache]
    /\ load_pc' = [load_pc EXCEPT ![t] = "idle"]
    /\ UNCHANGED <<iab_cache, iab_path, headers_info, load_path, load_items>>
    /\ UNCHANGED <<taxVars, urlVars, valVars, mrgVars, ctrVars, segVars, rlVars, jsonVars, clsVars, ownVars>>

\* the file is read into the local items: it cannot be opened, or it has
\* fewer rows than the loader accepts, or the list is built and sorted
BuildItems(t) ==
    /\ load_pc[t] = "build"
    /\ \E outcome \in { "unreadable", "too_small", "ok" } :
         /\ headers_info' = IF outcome = "unreadable" THEN headers_info ELSE load_path[t]
         /\ load_items' = [load_items EXCEPT ![t] =
                              IF outcome = "ok" THEN Built(load_path[t], 0) ELSE NoItems]
         /\ load_result' = [load_result EXCEPT ![t] =
                               CASE outcome = "unreadable" -> OSError
                                 [] outcome = "too_small"  -> RuntimeError
                                 [] OTHER                  -> PyNone]
         /\ load_pc' = [load_pc EXCEPT ![t] = IF outcome = "ok" THEN "store_cache"
                                              ELSE "idle"]
    /\ UNCHANGED <<iab_cache, iab_path, load_path>>
    /\ UNCHANGED <<taxVars, urlVars, valVars, mrgVars, ctrVars, segVars, rlVars, jsonVars, clsVars, ownVars>>

\* _IAB_CACHE = items
StoreCache(t) ==
    /\ load_pc[t] = "store_cache"
    /\ iab_cache' = load_items[t]
    /\ load_pc' = [load_pc EXCEPT ![t] = "store_path"]
    /\ UNCHANGED <<iab_path, headers_info, load_path, load_items, load_result>>
    /\ UNCHANGED <<taxVars, urlVars, valVars, mrgVars, ctrVars, segVars, rlVars, jsonVars, clsVars, ownVars>>

\* _IAB_PATH = path; return items
StorePath(t) ==
    /\ load_pc[t] = "store_path"
    /\ iab_path' = load_path[t]
    /\ load_result' = [load_result EXCEPT ![t] = load_items[t]]
    /\ load_pc' = [load_pc EXCEPT ![t] = "idle"]
    /\ UNCHANGED <<iab_cache, headers_info, load_path, load_items>>
    /\ UNCHANGED <<taxVars, urlVars, valVars, mrgVars, ctrVars, segVars, rlVars, jsonVars, clsVars, ownVars>>

NextCache ==
    \E t \in Threads :
        \/ LoadCall(t)
        \/ ReadCache(t)
        \/ ReadPath(t)
        \/ ReturnCached(t)
        \/ BuildItems(t)
        \/ StoreCache(t)
        \/ StorePath(t)

SpecCache == InitCache /\ [][NextCache]_vars

-----------------------------------------------------------------------------
(* The holders of a built taxonomy and their reloads: mcp_server.py
   refresh_taxonomy, iab_enhanced_classification.py load_taxonomy, and
   load_iab_taxonomy called by one thread at a time *)

\* the dict of the startup fallback that found no taxonomy
Unavailable == [status |-> "unavailable"]

\* the empty list IABClassificationHelper holds after a failed load
EmptyTaxonomy == [status |-> "empty"]

\* the taxonomy built by the load numbered k
Loaded(k) == [status |-> "good", build |-> k]

\* after import: each holder has the taxonomy of its startup load, or what
\* its startup code leaves when that load failed
InitReload ==
    /\ app_taxonomy \in { Unavailable, Loaded(0) }
    /\ helper_taxonomy \in { EmptyTaxonomy, Loaded(0) }
    /\ reloads = 0
    /\ reload_last = [holder |-> "none"]
    /\ iab_cache = NoItems
    /\ iab_path = ""
    /\ headers_info = ""
    /\ load_pc = <<>>
    /\ load_path = <<>>
    /\ load_items = <<>>
    /\ load_result = <<>>
    /\ IdleTax
    /\ IdleUrl
    /\ IdleVal
    /\ IdleMrg
    /\ IdleCtr
    /\ IdleSeg
    /\ IdleJson
    /\ IdleCls
    /\ IdleOwn

\* POST /admin/refresh-taxonomy: the token check or load_taxonomy raises and
\* the handler answers 500, or the loaded dict is stored
RefreshTaxonomy ==
    /\ reloads < MaxReloads
    /\ \E ok \in BOOLEAN :
         /\ app_taxonomy' = IF ok THEN Loaded(reloads + 1) ELSE app_taxonomy
         /\ reload_last' = [holder |-> "refresh", ok |-> ok]
    /\ reloads' = reloads + 1
    /\ UNCHANGED helper_taxonomy
    /\ UNCHANGED <<taxVars, urlVars, valVars, mrgVars, ctrVars, segVars, tcVars, jsonVars, clsVars, ownVars>>

\* IABClassificationHelper.load_taxonomy
HelperLoadTaxonomy ==
    /\ reloads < MaxReloads
    /\ \E ok \in BOOLEAN :
         /\ helper_taxonomy' = IF ok THEN Loaded(reloads + 1) ELSE EmptyTaxonomy
         /\ reload_last' = [holder |-> "helper", ok |-> ok]
    /\ reloads' = reloads + 1
    /\ UNCHANGED app_taxonomy
    /\ UNCHANGED <<taxVars, urlVars, valVars, mrgVars, ctrVars, segVars, jsonVars, clsVars, ownVars>>
    /\ UNCHANGED tcVars

\* load_iab_taxonomy(path), the whole call: the cached list is returned, or
\* the build raises, or the list it built is stored with its path
LoadIabTaxonomy ==
    /\ reloads < MaxReloads
    /\ \E path \in Paths, outcome \in { "unreadable", "too_small", "ok" } :
         IF NonEmpty(iab_cache) /\ iab_path = path
         THEN /\ reload_last' = [holder |-> "cache", ok |-> TRUE]
              /\ UNCHANGED <<iab_cache, iab_path, headers_info>>
         ELSE /\ headers_info' = IF outcome = "unreadable" THEN headers_info ELSE path
              /\ iab_cache' = IF outcome = "ok" THEN Built(path, reloads + 1) ELSE iab_cache
              /\ iab_path' = IF outcome = "ok" THEN path ELSE iab_path
              /\ reload_last' = [holder |-> "cache", ok |-> outcome = "ok"]
    /\ reloads' = reloads + 1
    /\ UNCHANGED <<app_taxonomy, helper_taxonomy>>
    /\ UNCHANGED <<load_pc, load_path, load_items, load_result>>
    /\ UNCHANGED <<taxVars, urlVars, valVars, mrgVars, ctrVars, segVars, jsonVars, clsVars, ownVars>>

NextReload == RefreshTaxonomy \/ HelperLoadTaxonomy \/ LoadIabTaxonomy

SpecReload == InitReload /\ [][NextReload]_vars

-----------------------------------------------------------------------------
(* backend/taxonomy_loader.py: load_taxonomy, the JSON loader whose result
   is app.config['IAB_TAXONOMY'] *)

TaxonomyLoadError == [status |-> "TaxonomyLoadError"]

\* a or b on values of a JSON object
PyOr(a, b) == IF DictGet(a) \in { PyNone, PyStr(<<>>) } THEN DictGet(b) ELSE a

\* iab_code.count('-') + 1
DashLevel(code) == Cardinality({ i \in DOMAIN code : code[i] = "-" }) + 1

\* the loop over payload.get('codes', []): an entry without a code is passed
\* over, a later entry replaces an earlier one with the same code
RECURSIVE CodesMap(_)
CodesMap(codes) ==
    IF codes = <<>> THEN EmptyDict
    ELSE LET c == codes[Len(codes)]
             before == CodesMap(SubSeq(codes, 1, Len(codes) - 1))
             iab_code == PyOr(c.iab_code, c.code)
             label == PyOr(PyOr(c.label, c.name), iab_code)
         IN  IF iab_code \in { PyNone, PyStr(<<>>) } THEN before
             ELSE [k \in DOMAIN before \cup { iab_code.s } |->
                      IF k = iab_code.s
                      THEN [label |-> label.s, level |-> DashLevel(iab_code.s)]
                      ELSE before[k]]

\* load_taxonomy(iab_url, fallback_json_path); the URL is not read
load_taxonomy(file) ==
    IF ~file.exists THEN TaxonomyLoadError
    ELSE [status |-> "ok", codes |-> CodesMap(file.codes)]

\* the entries of the file's "codes" list
JsonEntries ==
    [iab_code : { Absent, PyStr(IAB1), PyStr(IAB2) },
     code : { Absent, PyStr(<<>>), PyStr(IAB1_2) },
     label : { Absent, PyStr(<<"a">>) },
     name : { Absent }]

InitJson ==
    /\ \/ json_file = [exists |-> FALSE]
       \/ \E n \in 0..MaxCodes :
             \E codes \in [1..n -> JsonEntries] :
                json_file = [exists |-> TRUE, codes |-> codes]
    /\ json_taxonomy = [status |-> "none"]
    /\ IdleTax
    /\ IdleUrl
    /\ IdleVal
    /\ IdleMrg
    /\ IdleCtr
    /\ IdleSeg
    /\ IdleCache
    /\ IdleReload
    /\ IdleCls
    /\ IdleOwn

LoadTaxonomy ==
    /\ json_taxonomy' = load_taxonomy(json_file)
    /\ UNCHANGED json_file
    /\ UNCHANGED <<taxVars, urlVars, valVars, mrgVars, ctrVars, segVars, tcVars, rlVars, clsVars, ownVars>>

NextJson == LoadTaxonomy

SpecJson == InitJson /\ [][NextJson]_vars

-----------------------------------------------------------------------------
(* backend/mcp_server.py: classify_url, with FirebaseService's
   get_classification_by_url and save_classification *)

\* the signed-in user of a request, None without one
UserIds == { None, <<"u">> }

\* the answer of the completion service: the request fails, the content
\* is not JSON, or the content is a JSON object
Answer(code, subcode, category) ==
    [iab_code |-> code, iab_category |-> category,
     iab_subcode |-> subcode, iab_subcategory |-> None,
     iab_secondary_code |-> None, iab_secondary_category |-> None,
     iab_secondary_subcode |-> None, iab_secondary_subcategory |-> None]

Contents ==
    { [kind |-> "error"], [kind |-> "text"] }
      \cup { [kind |-> "json", answer |-> a] :
               a \in { Answer(IAB1, IAB1 \o <<"-", "1">>, None),
                       Answer(IAB2, None, None),
                       Answer(None, None, <<"a">>) } }

\* what the services around one call do: OPENAI_API_KEY is set,
\* get_firebase_service returns, the document read succeeds, the article
\* text is extracted, the completion's content, the document write succeeds
Envs ==
    [key : BOOLEAN, service : BOOLEAN, read_ok : BOOLEAN, extracted : BOOLEAN,
     content : Contents, save_ok : BOOLEAN]

\* a dict without its 'timestamp' key
PopTimestamp(data) == [k \in DOMAIN data \ {"timestamp"} |-> data[k]]

\* FirebaseService.get_classification_by_url: the document under the id of
\* the URL as given, None when there is none or the read fails
get_classification_by_url(docs, url, read_ok) ==
    IF read_ok /\ _create_doc_id(url) \in DOMAIN docs
    THEN [found |-> TRUE, data |-> PopTimestamp(docs[_create_doc_id(url)])]
    ELSE [found |-> FALSE]

\* FirebaseService.save_classification: doc_ref.set under the id of the URL
\* as given; a failed write leaves the collection as it was
save_classification_data(docs, url, classification_data, utcnow, save_ok) ==
    IF ~save_ok THEN docs
    ELSE LET doc_id == _create_doc_id(url)
             data_to_save == [k \in DOMAIN classification_data \cup {"url", "timestamp"} |->
                                 IF k = "url" THEN url
                                 ELSE IF k = "timestamp" THEN utcnow
                                 ELSE classification_data[k]]
         IN  [d \in DOMAIN docs \cup {doc_id} |->
                 IF d = doc_id THEN data_to_save ELSE docs[d]]

\* the call's outcome: what it gives back, whether the completion service
\* was called, the collection after it
Outcome(returned, invoked, docs) ==
    [returned |-> returned, invoked |-> invoked, docs |-> docs]

\* classify_url(url, force_reclassify, user_id).  The merge it starts after
\* a save for a signed-in user is called with a keyword the function does
\* not take; the TypeError is caught and nothing is merged.
classify_url(docs, url, force_reclassify, user_id, env, utcnow) ==
    LET cached == IF env.service /\ ~force_reclassify
                  THEN get_classification_by_url(docs, url, env.read_ok)
                  ELSE [found |-> FALSE]
        validated == _normalize_and_validate_iab(env.content.answer, IndexFull)
        with_meta == [iab_code |-> validated.iab_code,
                      iab_subcode |-> validated.iab_subcode,
                      iab_secondary_code |-> validated.iab_secondary_code,
                      iab_secondary_subcode |-> validated.iab_secondary_subcode,
                      url_normalized |-> normalize_url(url),
                      user_id |-> user_id]
    IN  IF ~env.key THEN Outcome(ValueError, FALSE, docs)
        ELSE IF cached.found THEN Outcome([t |-> "dict", data |-> cached.data], FALSE, docs)
        ELSE IF ~env.extracted THEN Outcome(ValueError, FALSE, docs)
        ELSE IF env.content.kind # "json" THEN Outcome(ValueError, TRUE, docs)
        ELSE IF validated.status = "raised" THEN Outcome([t |-> "NameError"], TRUE, docs)
        ELSE Outcome([t |-> "dict", data |-> validated], TRUE,
                     IF env.service
                     THEN save_classification_data(docs, url, with_meta, utcnow, env.save_ok)
                     ELSE docs)

InitCls ==
    /\ cls_docs = EmptyDict
    /\ cls_clock = 0
    /\ cls_last = [outcome |-> "none"]
    /\ IdleTax
    /\ IdleUrl
    /\ IdleVal
    /\ IdleMrg
    /\ IdleCtr
    /\ IdleSeg
    /\ IdleCache
    /\ IdleReload
    /\ IdleJson
    /\ IdleOwn

\* one request to classify a URL
ClassifyUrl ==
    /\ cls_clock < MaxCalls
    /\ \E url \in RawUrls, force_reclassify \in BOOLEAN, user_id \in UserIds, env \in Envs :
         \E out \in { classify_url(cls_docs, url, force_reclassify, user_id, env,
                                   cls_clock + 1) } :
            /\ cls_docs' = out.docs
            /\ cls_last' = [outcome |-> "done", url |-> url,
                            force_reclassify |-> force_reclassify,
                            healthy |-> env.key /\ env.service /\ env.read_ok,
                            extracted |-> env.extracted,
                            returned |-> out.returned, invoked |-> out.invoked]
    /\ cls_clock' = cls_clock + 1
    /\ UNCHANGED <<taxVars, urlVars, valVars, mrgVars, ctrVars, segVars, tcVars, rlVars, jsonVars, ownVars>>

NextCls == ClassifyUrl

SpecCls == InitCls /\ [][NextCls]_vars

-----------------------------------------------------------------------------
(* backend/merge_attribution_with_classification.py: runs of
   merge_attribution_data that overlap in time.  A run takes no owner: it
   loads attribution_data whole and writes a merged document per URL.  The
   owner of a run is the signed-in user on whose behalf it was started. *)

Owners == { <<"u">>, <<"v">> }

\* the page an owner uploads attribution data for
OwnerUrl(owner) == owner \o <<".", "b">>

\* the attribution document an owner uploads
OwnedRecord(owner, clicks) ==
    ("user_id" :> PyStr(owner))
      @@ AttributionRecord(OwnerUrl(owner), PyNone, clicks, PyFloat(1000, 1))

IdleRun == [pc |-> "idle"]

InitOwn ==
    /\ own_attr = <<>>
    /\ own_merged = EmptyDict
    /\ own_runs = [o \in Owners |-> IdleRun]
    /\ own_wrote = EmptyDict
    /\ own_clock = 0
    /\ IdleTax
    /\ IdleUrl
    /\ IdleVal
    /\ IdleMrg
    /\ IdleCtr
    /\ IdleSeg
    /\ IdleCache
    /\ IdleReload
    /\ IdleJson
    /\ IdleCls

\* an owner uploads attribution data for their page
OwnerUpload(owner) ==
    /\ own_clock < MaxSteps
    /\ own_clock' = own_clock + 1
    /\ \E clicks \in { PyFloat(3, 1), PyFloat(50, 1) } :
         own_attr' = save_attribution_data(own_attr, OwnerUrl(owner),
                                           OwnedRecord(owner, clicks))
    /\ UNCHANGED <<own_merged, own_runs, own_wrote>>
    /\ UNCHANGED <<taxVars, urlVars, valVars, mrgVars, ctrVars, segVars, tcVars, rlVars, jsonVars, clsVars>>

\* merge_attribution_data up to the loop: a fresh merger loads the two
\* collections (classified_urls is empty here) and builds the lookups
StartRun(owner) ==
    /\ own_clock < MaxSteps
    /\ own_clock' = own_clock + 1
    /\ own_runs[owner].pc = "idle"
    /\ own_runs' = [own_runs EXCEPT ![owner] =
                       [pc |-> "loop",
                        attribution_lookup |-> Lookup(own_attr),
                        all_urls |-> DOMAIN Lookup(own_attr),
                        stats |-> LoadedStats(own_attr, <<>>)]]
    /\ UNCHANGED <<own_attr, own_merged, own_wrote>>
    /\ UNCHANGED <<taxVars, urlVars, valVars, mrgVars, ctrVars, segVars, tcVars, rlVars, jsonVars, clsVars>>

\* one turn of the loop over all_urls, a set: _process_url_merge for a URL
\* not yet processed; after the last URL the run returns
ProcessUrl(owner) ==
    /\ own_runs[owner].pc = "loop"
    /\ own_clock' = own_clock + 1
    /\ IF own_runs[owner].all_urls = {}
       THEN /\ own_runs' = [own_runs EXCEPT ![owner] = IdleRun]
            /\ UNCHANGED <<own_merged, own_wrote>>
       ELSE \E url \in own_runs[owner].all_urls :
              \E acc \in { _process_url_merge(
                              [stats |-> own_runs[owner].stats, merged |-> own_merged],
                              url, own_runs[owner].attribution_lookup, EmptyDict,
                              {}, own_clock') } :
                 /\ own_merged' = acc.merged
                 /\ own_runs' = [own_runs EXCEPT ![owner].stats = acc.stats,
                                                 ![owner].all_urls = @ \ {url}]
                 /\ own_wrote' =
                       Put(own_wrote, _create_doc_id(url),
                           (IF _create_doc_id(url) \in DOMAIN own_wrote
                            THEN own_wrote[_create_doc_id(url)] ELSE {}) \cup {owner})
    /\ UNCHANGED own_attr
    /\ UNCHANGED <<taxVars, urlVars, valVars, mrgVars, ctrVars, segVars, tcVars, rlVars, jsonVars, clsVars>>

NextOwn == \E owner \in Owners : OwnerUpload(owner) \/ StartRun(owner) \/ ProcessUrl(owner)

SpecOwn == InitOwn /\ [][NextOwn]_vars

-----------------------------------------------------------------------------
(* Properties of the taxonomy build, under SpecTax *)

\* 1-based position of node n in its sibling group sorted by label
SiblingRank(rows, n) ==
    LET sibs == ByParent(rows, n.parent_uid)
    IN  CHOOSE k \in 1..Len(sibs) : sibs[k].uid = n.uid

\* no two rows with the same parent have the same label, case-insensitively
DistinctSiblingLabels(rows) ==
    \A i, j \in 1..Len(rows) :
        (i # j /\ rows[i].parent_uid = rows[j].parent_uid)
            => Lower(rows[i].label) # Lower(rows[j].label)

\* C1: every emitted entry whose parent has a code, at any depth, has the
\* code "<parent code>-<rank>", rank being its 1-based position among its
\* siblings sorted case-insensitively by label.
C1_CodeIsParentCodeDashRank ==
    iab_status = "ok" =>
        \A i \in 1..Len(iab_codes) :
            (tsv_rows[i].parent_uid # NoParent /\ iab_codes[i].parent # None)
                => iab_codes[i].code =
                      iab_codes[i].parent \o <<"-">> \o IntToStr(SiblingRank(tsv_rows, tsv_rows[i]))

\* C2: no two entries of the returned index carry the same code.
C2_CodesUnique ==
    iab_status = "ok" =>
        \A i, j \in 1..Len(iab_codes) :
            (i # j /\ iab_codes[i].code # None) => iab_codes[i].code # iab_codes[j].code

\* C3 as stated: after the rows of a source are permuted and the source is
\* built again, every node id has the code it had before.
C3_OrderIndependent ==
    prev_code_by_uid # None => code_by_uid = prev_code_by_uid

\* C3 amended: the same, for sources in which no two siblings (roots
\* included) have the same label case-insensitively.
C3_OrderIndependentDistinctLabels ==
    (prev_code_by_uid # None /\ DistinctSiblingLabels(tsv_rows))
        => code_by_uid = prev_code_by_uid

\* a permuted source was rebuilt in which two coded siblings with different
\* labels stand in the file against their label order
C3_Witness ==
    /\ prev_code_by_uid # None
    /\ DistinctSiblingLabels(tsv_rows)
    /\ \E i, j \in 1..Len(tsv_rows) :
         /\ i < j
         /\ tsv_rows[i].parent_uid = tsv_rows[j].parent_uid
         /\ tsv_rows[i].uid \in DOMAIN code_by_uid
         /\ StrLess(Lower(tsv_rows[j].label), Lower(tsv_rows[i].label))

-----------------------------------------------------------------------------
(* Properties of normalize_url, under SpecUrl *)

\* C4: normalize_url is idempotent: normalising a normalised URL changes nothing.
C4_NormalizeIdempotent ==
    url_twice # None => url_twice = url_once

-----------------------------------------------------------------------------
(* Properties of _normalize_and_validate_iab, under SpecVal *)

ValReturned == val_out.status = "ok"

\* code is "<parent>-<n>" for a number n
IsImmediateChild(code, parent) ==
    /\ StartsWith(code, parent \o <<"-">>)
    /\ Len(code) > Len(parent) + 1
    /\ DigitsEnd(code, Len(parent) + 2) = Len(code)

\* C5: code validation never raises, whatever the code and label fields hold.
C5_NeverRaises ==
    val_out.status # "raised"

\* C6 as stated: in the output a present subcategory code has its paired
\* parent code present and is "<parent>-<n>", for both pairs.
C6_SubImpliesParent ==
    ValReturned =>
        /\ val_out.iab_subcode # None =>
              (val_out.iab_code # None
                 /\ IsImmediateChild(val_out.iab_subcode, val_out.iab_code))
        /\ val_out.iab_secondary_subcode # None =>
              (val_out.iab_secondary_code # None
                 /\ IsImmediateChild(val_out.iab_secondary_subcode, val_out.iab_secondary_code))

\* C6 amended: in every returned output, for both pairs, when the
\* subcategory code and the paired parent code are both present the
\* subcategory code is "<parent>-<n>"; the parent code is the one
\* validate_iab_code resolved, whether or not the subcategory was cleared.
C6_SubMatchesPresentParent ==
    ValReturned =>
        /\ (val_out.iab_subcode # None /\ val_out.iab_code # None)
              => IsImmediateChild(val_out.iab_subcode, val_out.iab_code)
        /\ (val_out.iab_secondary_subcode # None /\ val_out.iab_secondary_code # None)
              => IsImmediateChild(val_out.iab_secondary_subcode, val_out.iab_secondary_code)
        /\ val_out.iab_code = OrNone(Resolved(val_in, val_index).primary_code)
        /\ val_out.iab_secondary_code = OrNone(Resolved(val_in, val_index).sec_code)

\* a call returned in which the subcategory resolved to a code that is no
\* child of the resolved primary code and was cleared, the primary kept
C6_Witness ==
    /\ ValReturned
    /\ Resolved(val_in, val_index).sub_code # Empty
    /\ Resolved(val_in, val_index).primary_code # Empty
    /\ val_out.iab_subcode = None
    /\ val_out.iab_code # None

\* the code fields of the answer with the code each resolved to
CodeFields ==
    { <<val_in.iab_code, Resolved(val_in, val_index).primary_code>>,
      <<val_in.iab_subcode, Resolved(val_in, val_index).sub_code>>,
      <<val_in.iab_secondary_code, Resolved(val_in, val_index).sec_code>>,
      <<val_in.iab_secondary_subcode, Resolved(val_in, val_index).sec_sub_code>> }

\* C24: a code field whose value is a code of the index, of any depth,
\* resolves to exactly that code.
C24_IndexedCodeResolvesToItself ==
    val_out.status # "none" =>
        \A f \in CodeFields : f[1] \in DOMAIN val_index => f[2] = f[1]

\* the four field pairs of the answer: code text, label text, the code
\* validate_iab_code gave, and whether the pair is a subcategory pair
FieldPairs ==
    { [code |-> val_in.iab_code, label |-> val_in.iab_category,
       resolved |-> Resolved(val_in, val_index).primary_code, sub |-> FALSE],
      [code |-> val_in.iab_subcode, label |-> val_in.iab_subcategory,
       resolved |-> Resolved(val_in, val_index).sub_code, sub |-> TRUE],
      [code |-> val_in.iab_secondary_code, label |-> val_in.iab_secondary_category,
       resolved |-> Resolved(val_in, val_index).sec_code, sub |-> FALSE],
      [code |-> val_in.iab_secondary_subcode, label |-> val_in.iab_secondary_subcategory,
       resolved |-> Resolved(val_in, val_index).sec_sub_code, sub |-> TRUE] }

\* neither the code text nor the label text carries a code of the index,
\* and there is a label text: the pair is left to the label fallback
LeftToLabel(f) ==
    /\ Truthy(f.label)
    /\ ~(Truthy(f.code) /\ extract_iab_code(f.code) \in DOMAIN val_index)
    /\ extract_iab_code(f.label) \notin DOMAIN val_index

\* the codes of the index whose label is the label text
LabelCandidates(f) ==
    { c \in DOMAIN val_index : Lower(Strip(val_index[c])) = Lower(Strip(f.label)) }

\* C25: a pair resolved by label text whose label several codes share
\* resolves to the shallowest candidate when it is a primary-category pair
\* and to the deepest candidate when it is a subcategory pair.
C25_LabelTieBreak ==
    val_out.status # "none" =>
        \A f \in FieldPairs :
           (LeftToLabel(f) /\ Cardinality(LabelCandidates(f)) > 1) =>
              /\ f.resolved \in LabelCandidates(f)
              /\ \A c \in LabelCandidates(f) :
                    IF f.sub THEN DashLevel(c) <= DashLevel(f.resolved)
                    ELSE DashLevel(c) >= DashLevel(f.resolved)

-----------------------------------------------------------------------------
(* Properties of the merge, under Spec *)

\* the merged signals the latest run wrote
WrittenByLastRun ==
    { d \in DOMAIN merged_content_signals : merged_content_signals[d].merged_at = now }

\* those of them that carry attribution data
WrittenForAttribution ==
    { d \in WrittenByLastRun : merged_content_signals[d].has_attribution_data }

AttributionUrls == { attribution_data[i].url : i \in DOMAIN attribution_data }

ClassificationUrls == { classified_urls[d].url : d \in DOMAIN classified_urls }

\* the attribution record with this URL that comes last in the stream
LastWithUrl(url) ==
    attribution_data[CHOOSE i \in DOMAIN attribution_data :
        /\ attribution_data[i].url = url
        /\ \A j \in DOMAIN attribution_data : attribution_data[j].url = url => j <= i]

\* the step is a merge run
IsRun == now' = now + 1

\* the run loaded every attribution record
LoadedAttribution ==
    merge_result'.statistics.total_attribution_records = Len(attribution_data)

\* the run loaded every classification record
LoadedClassification ==
    merge_result'.statistics.total_classification_records
        = Cardinality(DOMAIN classified_urls)

\* C7: a run whose writes all succeed persists as many merged signals with
\* attribution data as it processed attribution records (k records sharing a
\* URL give k merged signals).
C7_OnePerAttributionRecord ==
    (merge_result.status = "done" /\ merge_result.statistics.errors = 0)
        => Cardinality(WrittenForAttribution)
              = merge_result.statistics.total_attribution_records

\* C7 (amended): a run persists one merged signal per distinct URL of the
\* attribution records it processed, never one for another URL, and exactly
\* one per distinct URL when every write succeeds; the signal carries the
\* rate of the last record with that URL, or the derived rate when that
\* record has none.
C7_OnePerDistinctUrl ==
    [][IsRun =>
        /\ { merged_content_signals'[d].url : d \in WrittenForAttribution' }
               \subseteq AttributionUrls
        /\ (merge_result'.statistics.errors = 0 /\ LoadedAttribution)
               => /\ { merged_content_signals'[d].url : d \in WrittenForAttribution' }
                        = AttributionUrls
                  /\ Cardinality(WrittenForAttribution') = Cardinality(AttributionUrls)
        /\ \A d \in WrittenForAttribution' :
              \/ merged_content_signals'[d].attribution_ctr
                     = LastWithUrl(merged_content_signals'[d].url).ctr
              \/ /\ LastWithUrl(merged_content_signals'[d].url).ctr = PyNone
                 /\ merged_content_signals'[d].attribution_ctr = PyFloat(5, 1)
      ]_vars

\* two attribution records share a URL, the run processed both and wrote one
\* merged signal for them
C7_Witness ==
    /\ merge_result.status = "done"
    /\ merge_result.statistics.errors = 0
    /\ merge_result.statistics.total_attribution_records = 2
    /\ Len(attribution_data) = 2
    /\ attribution_data[1].url = attribution_data[2].url
    /\ attribution_data[1].ctr # attribution_data[2].ctr
    /\ Cardinality(WrittenForAttribution) = 1

\* C8: one attribution record and one classification record whose URLs
\* normalise to the same URL give, in a run that loads both and writes
\* without failure, exactly one merged signal, with both flags true, and
\* successful_merges = 1.
C8_JoinOnNormalizedUrl ==
    [][(/\ IsRun
        /\ Len(attribution_data) = 1
        /\ Cardinality(DOMAIN classified_urls) = 1
        /\ LoadedAttribution
        /\ LoadedClassification
        /\ merge_result'.statistics.errors = 0
        /\ \A u \in ClassificationUrls :
              normalize_url(u) = normalize_url(attribution_data[1].url))
        => /\ merge_result'.statistics.successful_merges = 1
           /\ Cardinality(WrittenByLastRun') = 1
           /\ \A d \in WrittenByLastRun' :
                 /\ merged_content_signals'[d].has_attribution_data
                 /\ merged_content_signals'[d].has_classification_data
      ]_vars

\* C9: a persisted merged signal is never changed: every step leaves every
\* record of merged_content_signals in place and equal to what it was.
C9_NeverChanged ==
    [][\A d \in DOMAIN merged_content_signals :
          /\ d \in DOMAIN merged_content_signals'
          /\ merged_content_signals'[d] = merged_content_signals[d]
      ]_vars

\* C9 (amended): a persisted merged signal is never removed and stays the
\* signal of its URL; only a merge run changes it, and only by writing the
\* run's own signal of that URL over it when the URL is among the records of
\* the source collections; a run that loads both collections and writes
\* without failure replaces the signal of every such URL; the signals of all
\* other URLs stay as they were.
C9_ReplacedInPlaceOrUntouched ==
    [][\A d \in DOMAIN merged_content_signals :
          /\ d \in DOMAIN merged_content_signals'
          /\ merged_content_signals'[d].url = merged_content_signals[d].url
          /\ merged_content_signals'[d] # merged_content_signals[d]
                => /\ IsRun
                   /\ merged_content_signals'[d].merged_at = now'
                   /\ merged_content_signals[d].url \in StoredUrls
          /\ (/\ IsRun
              /\ LoadedAttribution
              /\ LoadedClassification
              /\ merge_result'.statistics.errors = 0
              /\ merged_content_signals[d].url \in StoredUrls)
                => merged_content_signals'[d].merged_at = now'
      ]_vars

\* after the second run the collection holds a signal the first run wrote,
\* which the second run left alone, next to a signal the second run wrote
C9_Witness ==
    /\ now = 2
    /\ merge_result.statistics.errors = 0
    /\ \E d \in DOMAIN merged_content_signals : merged_content_signals[d].merged_at = 1
    /\ \E d \in DOMAIN merged_content_signals : merged_content_signals[d].merged_at = 2

-----------------------------------------------------------------------------
(* Properties of _create_merged_record, under SpecCtr *)

\* the uploaded rate is missing, empty or no number
RateUnusable(v) == v \in {Absent, PyNone} \/ v.t = "str"

\* the value is a number or the text of one
Numeric(v) == v.t \in {"int", "float"} \/ (v.t = "str" /\ IsDigits(Strip(v.s)))

\* numerator and denominator of a numeric value
NumeratorOf(v) == IF v.t = "str" THEN DigitsValue(Strip(v.s)) ELSE v.n

DenominatorOf(v) == IF v.t = "str" THEN 1 ELSE v.d

NoImpressions(v) ==
    v \in {Absent, PyNone} \/ (Numeric(v) /\ NumeratorOf(v) = 0)

\* C11: when the uploaded rate is missing, empty or no number and the
\* impression count is 0 or absent, the merged signal carries no
\* attribution_ctr value (the key is absent or None).
C11_NoRateWithoutImpressions ==
    (/\ ctr_merged.status = "ok"
     /\ RateUnusable(ctr_record.ctr)
     /\ NoImpressions(ctr_record.impressions))
        => ctr_merged.record.attribution_ctr \in {Absent, PyNone}

\* C11 (amended): in that case no rate is derived and attribution_ctr is
\* what the copy of the uploaded field left: the uploaded value itself
\* (None, '' or the text), and absent when the record has no ctr key.
C11_UploadedRateKept ==
    (/\ ctr_merged.status = "ok"
     /\ RateUnusable(ctr_record.ctr)
     /\ NoImpressions(ctr_record.impressions))
        => ctr_merged.record.attribution_ctr = ctr_record.ctr

\* a text rate with clicks = 50 and impressions = 0: the text is kept
C11_Witness ==
    /\ ctr_merged.status = "ok"
    /\ ctr_record.ctr = PyStr(<<"a">>)
    /\ ctr_record.clicks = PyInt(50)
    /\ ctr_record.impressions = PyInt(0)
    /\ ctr_merged.record.attribution_ctr = PyStr(<<"a">>)

-----------------------------------------------------------------------------
(* Properties of the merge run's outcome, under Spec *)

\* C12: a run reports success only when it loaded both source collections:
\* a run in which the read of either collection failed reports
\* success = false.
C12_LoadFailureFailsRun ==
    [][(IsRun /\ merge_result'.success)
          => (LoadedAttribution /\ LoadedClassification)
      ]_vars

\* the run of this step wrote the merged signal of the URL
WrittenNow(url) ==
    /\ _create_doc_id(url) \in DOMAIN merged_content_signals'
    /\ merged_content_signals'[_create_doc_id(url)].merged_at = now'

\* the step left the merged signal of the URL as it was
LeftAlone(url) ==
    IF _create_doc_id(url) \in DOMAIN merged_content_signals
    THEN /\ _create_doc_id(url) \in DOMAIN merged_content_signals'
         /\ merged_content_signals'[_create_doc_id(url)]
               = merged_content_signals[_create_doc_id(url)]
    ELSE _create_doc_id(url) \notin DOMAIN merged_content_signals'

\* C13: a run that loaded both collections reports success with its
\* statistics whatever writes failed; errors counts the URLs whose record
\* was not written, each of them keeps what it had, and every other URL of
\* the sources has its merged signal written and counted.
C13_SaveFailureCounted ==
    [][(IsRun /\ LoadedAttribution /\ LoadedClassification)
          => /\ merge_result'.status = "done"
             /\ merge_result'.success
             /\ merge_result'.statistics.errors
                   = Cardinality({ u \in StoredUrls : ~WrittenNow(u) })
             /\ \A u \in StoredUrls : WrittenNow(u) \/ LeftAlone(u)
             /\ merge_result'.statistics.successful_merges
                  + merge_result'.statistics.attribution_only
                  + merge_result'.statistics.classification_only
                   = Cardinality({ u \in StoredUrls : WrittenNow(u) })
      ]_vars

\* a run in which one write failed and another record was written
C13_Witness ==
    /\ merge_result.status = "done"
    /\ merge_result.success
    /\ merge_result.statistics.errors = 1
    /\ WrittenByLastRun # {}

-----------------------------------------------------------------------------
(* Properties of the merge over stored dicts, under SpecStore *)

\* the record has no url key or the empty url
UnusableUrl(record) == "url" \notin DOMAIN record \/ record.url = <<>>

\* C14: a run that loads an attribution record with a missing or empty URL
\* reports success and counts every such record in skipped.
C14_MissingUrlSkipped ==
    [][(/\ IsRun
        /\ LoadedAttribution
        /\ \E i \in DOMAIN attribution_data : UnusableUrl(attribution_data[i]))
          => /\ merge_result'.success
             /\ merge_result'.statistics.skipped
                   = Cardinality({ i \in DOMAIN attribution_data :
                                      UnusableUrl(attribution_data[i]) })
      ]_vars

-----------------------------------------------------------------------------
(* Properties of the records a merge run writes, under Spec *)

\* the URLs of the attribution records the run of this step loaded
LoadedAttributionUrls == IF LoadedAttribution THEN AttributionUrls ELSE {}

\* the URLs of the classification records the run of this step loaded
LoadedClassificationUrls == IF LoadedClassification THEN ClassificationUrls ELSE {}

\* C15: every merged signal in the store has has_attribution_data = TRUE.
C15_AlwaysHasAttribution ==
    \A d \in DOMAIN merged_content_signals :
        merged_content_signals[d].has_attribution_data

\* C15, amended: a merged signal written by a run has has_attribution_data
\* exactly when the run loaded an attribution record with its URL, and
\* has_classification_data exactly when it loaded a classification record
\* with its URL; one of the two holds, so a URL with a classification record
\* and no attribution record gets a signal with has_attribution_data FALSE.
C15_FlagsFollowSources ==
    [][IsRun =>
         \A d \in DOMAIN merged_content_signals' :
             merged_content_signals'[d].merged_at = now'
                 => /\ merged_content_signals'[d].has_attribution_data
                          = (merged_content_signals'[d].url \in LoadedAttributionUrls)
                    /\ merged_content_signals'[d].has_classification_data
                          = (merged_content_signals'[d].url \in LoadedClassificationUrls)
                    /\ \/ merged_content_signals'[d].has_attribution_data
                       \/ merged_content_signals'[d].has_classification_data
      ]_vars

\* a run wrote a signal for a URL that has a classification record only
C15_Witness ==
    /\ merge_result.status = "done"
    /\ merge_result.statistics.classification_only >= 1
    /\ \E d \in WrittenByLastRun :
          /\ ~merged_content_signals[d].has_attribution_data
          /\ merged_content_signals[d].has_classification_data

-----------------------------------------------------------------------------
(* Properties of the segment endpoints, under SpecSegTax and SpecSeg *)

\* the rows the last request returned
SegRows == { seg_result[i] : i \in DOMAIN seg_result }

\* the include and the exclude list of the last request
IncludeOf ==
    IF seg_call.op = "segment" THEN seg_call.rules.include_iab
    ELSE seg_call.include_codes

ExcludeOf ==
    IF seg_call.op = "segment" THEN seg_call.rules.exclude_iab
    ELSE seg_call.exclude_codes

\* the primary or the secondary classification code of the row is in codes
EitherCodeIn(r, codes) ==
    \/ RowGet(r, "classification_iab_code") \in codes
    \/ RowGet(r, "classification_iab_secondary_code") \in codes

\* C16: a request with an include or exclude list returns only rows whose
\* primary or secondary code is in the include list (when it is non-empty)
\* and neither of whose codes is in the exclude list, and it returns every
\* such document; this holds for the segment rules and for /export-segment.
C16_EitherCodeMatches ==
    (seg_call.op \in {"segment", "export_min"} /\ (IncludeOf # {} \/ ExcludeOf # {}))
        => /\ \A r \in SegRows :
                 /\ IncludeOf # {} => EitherCodeIn(r, IncludeOf)
                 /\ ~EitherCodeIn(r, ExcludeOf)
           /\ \A i \in DOMAIN seg_docs :
                 (/\ IncludeOf # {} => EitherCodeIn(seg_docs[i], IncludeOf)
                  /\ ~EitherCodeIn(seg_docs[i], ExcludeOf))
                     => seg_docs[i] \in SegRows

\* the document field of each attribution metric
MetricField ==
    [conversions |-> "attribution_conversions",
     revenue |-> "attribution_revenue",
     impressions |-> "attribution_impressions",
     clicks |-> "attribution_clicks",
     ctr |-> "attribution_ctr",
     scroll_depth |-> "attribution_scroll_depth",
     viewability |-> "attribution_viewability",
     time_on_page |-> "attribution_time_on_page",
     fill_rate |-> "attribution_fill_rate"]

\* the kpi_filters of the last request
KpiOf == seg_call.rules.kpi_filters

\* C17: every row returned for rules with kpi_filters has, for each metric
\* the filters name, a numeric value that meets the metric's gte and lte.
C17_ThresholdsHold ==
    seg_call.op = "segment"
        => \A k \in DOMAIN KpiOf : \A r \in SegRows :
               /\ Valf(RowGet(r, MetricField[k])) # PyNone
               /\ "gte" \in DOMAIN KpiOf[k]
                      => FloatLE(KpiOf[k].gte, Valf(RowGet(r, MetricField[k])))
               /\ "lte" \in DOMAIN KpiOf[k]
                      => FloatLE(Valf(RowGet(r, MetricField[k])), KpiOf[k].lte)

\* the sort value of a returned row
SortValue(r) == RowGet(r, _map_sort_param(seg_call.rules.sort_by))

\* the sort value does not coerce to a float
FailsToCoerce(r) == float(SortValue(r)) \in {ValueError, TypeError}

\* the sort value coerces to a number
IsNumber(r) == ~FailsToCoerce(r) /\ float(SortValue(r)) # NaN

\* C18: in the rows returned, for either order, no row whose sort value
\* fails to coerce comes before a row whose sort value is a number, and the
\* rows whose sort values are numbers are in the requested order.
C18_UnparsedNeverLeads ==
    seg_call.op = "segment"
        => \A i, j \in DOMAIN seg_result :
               i < j =>
                   /\ ~(FailsToCoerce(seg_result[i]) /\ IsNumber(seg_result[j]))
                   /\ (IsNumber(seg_result[i]) /\ IsNumber(seg_result[j]))
                          => IF seg_call.rules.order = "asc"
                             THEN FloatLE(float(SortValue(seg_result[i])),
                                          float(SortValue(seg_result[j])))
                             ELSE FloatLE(float(SortValue(seg_result[j])),
                                          float(SortValue(seg_result[i])))

-----------------------------------------------------------------------------
(* Properties of the taxonomy cache under concurrent loads, under SpecCache *)

\* C19: whatever the interleaving of the threads' loads and reads, a list
\* returned by load_iab_taxonomy(path) was built from path, and a non-empty
\* _IAB_CACHE is the list built from _IAB_PATH.
C19_ReaderGetsItsSource ==
    /\ \A t \in Threads :
          (load_pc[t] = "idle" /\ "built_from" \in DOMAIN load_result[t])
              => load_result[t].built_from = load_path[t]
    /\ NonEmpty(iab_cache) => iab_cache.built_from = iab_path

-----------------------------------------------------------------------------
(* Properties of the holders' reloads, under SpecReload *)

\* the step is a taxonomy load whose build failed, requested of this holder
FailedLoad(holder) ==
    /\ reloads' = reloads + 1
    /\ reload_last'.holder = holder
    /\ ~reload_last'.ok

\* C20: a load whose build fails leaves a holder that has a built taxonomy
\* with that taxonomy: the app-wide index of refresh_taxonomy, the taxonomy
\* of IABClassificationHelper, and the cache of load_iab_taxonomy.
C20_FailedReloadKeepsIndex ==
    [][/\ (FailedLoad("refresh") /\ app_taxonomy.status = "good")
              => app_taxonomy' = app_taxonomy
       /\ (FailedLoad("helper") /\ helper_taxonomy.status = "good")
              => helper_taxonomy' = helper_taxonomy
       /\ (FailedLoad("cache") /\ NonEmpty(iab_cache))
              => (iab_cache' = iab_cache /\ iab_path' = iab_path)
      ]_vars

-----------------------------------------------------------------------------
(* Properties of the JSON taxonomy loader, under SpecJson *)

\* C21: a taxonomy build never returns an index with fewer entries than
\* the minimum, in particular never an empty index: a load_taxonomy that
\* returns has at least one code.
C21_NoEmptyIndex ==
    json_taxonomy.status = "ok" => DOMAIN json_taxonomy.codes # {}

-----------------------------------------------------------------------------
(* Properties of classify_url and the classification collection, under
   SpecCls *)

\* C22: after any sequence of classification saves the collection holds at
\* most one document per normalized URL.
C22_OneRecordPerNormalizedUrl ==
    \A d1, d2 \in DOMAIN cls_docs :
       cls_docs[d1].url_normalized = cls_docs[d2].url_normalized => d1 = d2

-----------------------------------------------------------------------------
(* Properties of overlapping runs of the merge, under SpecOwn *)

\* C23: a run started for one owner writes only that owner's merged
\* records, so no merged document is written by the runs of two owners.
C23_RunsWriteOnlyTheirOwner ==
    \A d \in DOMAIN own_wrote :
       \A owner \in own_wrote[d] : own_merged[d].attribution_user_id = PyStr(owner)

-----------------------------------------------------------------------------
(* Properties of the emitted taxonomy entries, under SpecTax *)

\* C26: every entry parse_iab_tsv emits has a code, and every entry of a
\* row with a parent id has a parent code; rows whose parent is no row of
\* the source and rows whose parent links form a cycle included.
C26_EntriesHaveCodes ==
    iab_status = "ok" =>
        \A i \in 1..Len(iab_codes) :
           /\ iab_codes[i].code # None
           /\ tsv_rows[i].parent_uid # NoParent => iab_codes[i].parent # None

-----------------------------------------------------------------------------
(* Properties of the validated codes, under SpecVal *)

\* the four codes of a returned output
OutputCodes ==
    { val_out.iab_code, val_out.iab_subcode,
      val_out.iab_secondary_code, val_out.iab_secondary_subcode }

\* C27: every code in an output of _normalize_and_validate_iab is a key of
\* the index the call started with; with the empty index all four codes
\* are absent.
C27_CodesAreIndexKeys ==
    ValReturned =>
        /\ \A c \in OutputCodes : c = None \/ c \in DOMAIN val_index
        /\ val_index = EmptyDict => OutputCodes = { None }

\* a call returned a primary and a subcategory code from an index with codes
C27_Witness ==
    /\ ValReturned
    /\ val_out.iab_code # None
    /\ val_out.iab_subcode # None
    /\ val_in.iab_secondary_code # None
    /\ val_out.iab_secondary_code = None

-----------------------------------------------------------------------------
(* Properties of the segment limit, under SpecSeg *)

\* the documents that pass every rule of the last request: date range,
\* include and exclude codes, KPI thresholds
PassingAll ==
    LET rules == seg_call.rules
        MatchesIab(r) == matches_iab(r, rules.include_iab, rules.exclude_iab)
    IN  _apply_kpi_filters(
            SelectSeq(QueryByUploadDate(seg_docs, rules.start, rules.end), MatchesIab),
            rules.kpi_filters)

\* C28: the rows returned for a segment with limit L are the first L, in the
\* requested sort order, of the documents that pass every rule; L rows are
\* returned whenever at least L documents pass.
C28_FirstOfAllPassing ==
    seg_call.op = "segment" =>
        seg_result = Slice(SortRecords(PassingAll,
                                       _map_sort_param(seg_call.rules.sort_by),
                                       seg_call.rules.order # "asc"),
                           seg_call.limit)

-----------------------------------------------------------------------------
(* Properties of the merge counters, under Spec *)

\* the URLs the run of this step processed
ProcessedUrls == LoadedAttributionUrls \cup LoadedClassificationUrls

\* C29: in a run that reports success every URL processed adds one to
\* exactly one of successful_merges, attribution_only, classification_only,
\* errors and skipped, so the five sum to the number of distinct URLs
\* processed; successful_merges counts the URLs written that have both
\* records, attribution_only those written that have no classification
\* record, classification_only those written that have no attribution
\* record, errors those not written.
C29_OneCounterPerUrl ==
    [][(IsRun /\ merge_result'.success) =>
         LET st == merge_result'.statistics
         IN  /\ st.successful_merges + st.attribution_only + st.classification_only
                  + st.errors + st.skipped = Cardinality(ProcessedUrls)
             /\ st.successful_merges
                  = Cardinality({ u \in LoadedAttributionUrls \cap LoadedClassificationUrls :
                                     WrittenNow(u) })
             /\ st.attribution_only
                  = Cardinality({ u \in LoadedAttributionUrls \ LoadedClassificationUrls :
                                     WrittenNow(u) })
             /\ st.classification_only
                  = Cardinality({ u \in LoadedClassificationUrls \ LoadedAttributionUrls :
                                     WrittenNow(u) })
             /\ st.errors = Cardinality({ u \in ProcessedUrls : ~WrittenNow(u) })
             /\ st.skipped = 0
      ]_vars

\* a successful run counted a URL with both records, and a failed write
C29_Witness ==
    /\ merge_result.status = "done"
    /\ merge_result.success
    /\ merge_result.statistics.successful_merges = 1
    /\ merge_result.statistics.errors = 1
    /\ merge_result.statistics.total_attribution_records = 2

-----------------------------------------------------------------------------
(* Properties of the classification cache, under SpecCls *)

\* the step is a call of classify_url
IsClassify == cls_clock' = cls_clock + 1

\* the stored classification records of the URL: those of its normalized form
RecordsOf(url) ==
    { d \in DOMAIN cls_docs : cls_docs[d].url_normalized = normalize_url(url) }

\* the call of this step saved a record under d
SavedNow(d) == d \in DOMAIN cls_docs' /\ cls_docs'[d].timestamp = cls_clock'

\* C30: with the services working, a call for a URL that has a stored
\* classification record and without force_reclassify returns the stored
\* classification, does not call the completion service and writes
\* nothing; a call with force_reclassify whose article text was extracted
\* calls the completion service, and when the answer is parsed and saved
\* the stored record holds the new result.
C30_CachedUnlessForced ==
    [][(IsClassify /\ cls_last'.healthy) =>
         /\ (RecordsOf(cls_last'.url) # {} /\ ~cls_last'.force_reclassify)
               => /\ cls_last'.returned
                        \in { [t |-> "dict", data |-> PopTimestamp(cls_docs[d])] :
                                 d \in RecordsOf(cls_last'.url) }
                  /\ ~cls_last'.invoked
                  /\ cls_docs' = cls_docs
         /\ (cls_last'.force_reclassify /\ cls_last'.extracted)
               => /\ cls_last'.invoked
                  /\ \A d \in DOMAIN cls_docs' :
                        SavedNow(d) =>
                           /\ d = _create_doc_id(cls_last'.url)
                           /\ cls_last'.returned.t = "dict"
                           /\ \A k \in DOMAIN cls_last'.returned.data \ {"status"} :
                                 cls_docs'[d][k] = cls_last'.returned.data[k]
      ]_vars

====
